---- MODULE Spec2Model ----
(***************************************************************************)
(* Rules engine of graph-trajectories (src/lib/lorcana, src/lib/core).     *)
(*                                                                         *)
(* A game state (LorcanaState) is a record S:                              *)
(*   turn, game_over, winner          attributes of the node 'game'        *)
(*   lore, ink_drops, ink_total,                                           *)
(*   ink_available                    attributes of the nodes 'p1', 'p2'   *)
(*   cards                            card nodes: node id -> attributes    *)
(*   abilities                        ability nodes                        *)
(*   edges                            labelled edges, in insertion order   *)
(*   can                              action edges (those that carry an    *)
(*                                    action_type), in insertion order     *)
(*   deck1_ids, deck2_ids             ids not yet drawn                    *)
(* Node ids are tuples of the parts the source joins with '.':             *)
(*   <<"game">>, <<"p1">>, <<"p1", label, suffix>> (card),                 *)
(*   <<"step", player, phase>>, <<keyword, turn, seq>> (ability).          *)
(* Numeric attributes are integers (the source keeps them as strings of    *)
(* digits and converts with int() at every read).                          *)
(***************************************************************************)
EXTENDS Integers, Sequences, FiniteSets, TLC

VARIABLES
  state,        \* the LorcanaState being played
  last,         \* the action edge applied last (history)
  deck_out,     \* a draw step found its deck empty (history)
  store,        \* GameSession.store: path -> saved state
  current_key,  \* GameSession.current_key
  outcomes,     \* MemoryStore._outcomes: path -> outcome data
  root_key,     \* GameSession.root_key
  outcome_refs, \* MemoryStore._outcome_refs: path -> aggregated outcomes
  objects,      \* the state objects a caller of the stores holds
  files,        \* the directory tree a FileStore works on
  cache         \* FileStore._cache: path -> state object

vars == <<state, last, deck_out, store, current_key, outcomes, root_key,
          outcome_refs, objects, files, cache>>

store_vars == <<objects, files, cache>>

(***************************************************************************)
(* Bounds of the model.                                                    *)
(***************************************************************************)
MaxHand == 2
MaxInitDamage == 1

(***************************************************************************)
(* Program constants.                                                      *)
(***************************************************************************)
WinLore == 20

Players == {"p1", "p2"}

\* constants.py
Zone_HAND == "hand"
Zone_PLAY == "play"
Zone_INK == "ink"
Zone_DISCARD == "discard"

Keyword_RUSH == "rush"
Keyword_EVASIVE == "evasive"
Keyword_ALERT == "alert"
Keyword_BODYGUARD == "bodyguard"
Keyword_RECKLESS == "reckless"

Edge_SOURCE == "source"
Edge_CURRENT_TURN == "current_turn"
Edge_CURRENT_STEP == "current_step"
Edge_CANT_QUEST == "cant_quest"

Action_PASS == "can_pass"
Action_INK == "can_ink"
Action_PLAY == "can_play"
Action_QUEST == "can_quest"
Action_CHALLENGE == "can_challenge"

CardType_CHARACTER == "character"
CardType_ACTION == "action"

NoMetadata == [exerted |-> FALSE]

(***************************************************************************)
(* The card database (data/cards.json behind get_card_db): the entries the *)
(* model plays with, keyed by normalized name.  abilities holds the        *)
(* printed keywords as the database spells them.                           *)
(***************************************************************************)
Labels ==
  << "cri_kee_good_luck_charm", "gaston_arrogant_hunter",
     "peter_pan_never_landing", "rafiki_mysterious_sage",
     "simba_protective_cub", "stitch_new_dog", "stitch_rock_star" >>

CharacterLabels == {Labels[i] : i \in 1..Len(Labels)}

\* all entries in string order: the characters and the action card of
\* tests/lorcana/test_play.py
CardLabels ==
  << "cri_kee_good_luck_charm", "dragon_fire", "gaston_arrogant_hunter",
     "peter_pan_never_landing", "rafiki_mysterious_sage",
     "simba_protective_cub", "stitch_new_dog", "stitch_rock_star" >>

LabelSet == {CardLabels[i] : i \in 1..Len(CardLabels)}

get_card_db ==
  [l \in LabelSet |->
    CASE l = "cri_kee_good_luck_charm" ->
           [type |-> CardType_CHARACTER, cost |-> 1, strength |-> 0, willpower |-> 2,
            lore |-> 1, inkwell |-> TRUE, abilities |-> <<"Alert">>]
      [] l = "dragon_fire" ->
           [type |-> CardType_ACTION, cost |-> 5, inkwell |-> FALSE,
            abilities |-> <<>>]
      [] l = "gaston_arrogant_hunter" ->
           [type |-> CardType_CHARACTER, cost |-> 2, strength |-> 4, willpower |-> 2,
            lore |-> 0, inkwell |-> TRUE, abilities |-> <<"Reckless">>]
      [] l = "peter_pan_never_landing" ->
           [type |-> CardType_CHARACTER, cost |-> 1, strength |-> 1, willpower |-> 1,
            lore |-> 1, inkwell |-> TRUE, abilities |-> <<"Evasive">>]
      [] l = "rafiki_mysterious_sage" ->
           [type |-> CardType_CHARACTER, cost |-> 3, strength |-> 3, willpower |-> 3,
            lore |-> 1, inkwell |-> TRUE, abilities |-> <<"Rush">>]
      [] l = "simba_protective_cub" ->
           [type |-> CardType_CHARACTER, cost |-> 2, strength |-> 2, willpower |-> 3,
            lore |-> 1, inkwell |-> TRUE, abilities |-> <<"Bodyguard">>]
      [] l = "stitch_new_dog" ->
           [type |-> CardType_CHARACTER, cost |-> 1, strength |-> 2, willpower |-> 2,
            lore |-> 1, inkwell |-> FALSE, abilities |-> <<>>]
      [] l = "stitch_rock_star" ->
           [type |-> CardType_CHARACTER, cost |-> 6, strength |-> 3, willpower |-> 5,
            lore |-> 3, inkwell |-> TRUE, abilities |-> <<>>] ]

(***************************************************************************)
(* Node ids and their order as strings ('game' < 'p1' < 'p1.x' < 'p2').    *)
(***************************************************************************)
GameNode == <<"game">>

PlayerNode(p) == <<p>>

CardNode(p, l) == <<p, l, "a">>

CardNodes == {CardNode(p, l) : p \in Players, l \in LabelSet}

CardsOf(p) == {CardNode(p, l) : l \in LabelSet}

Owner(n) == n[1]

Label(n) == n[2]

\* the copy suffixes of a card name, chr(ord('a') + i) for the i-th copy
CopySuffixes == <<"a", "b", "c", "d">>

\* a player's card nodes: by name, and by copy within a name
CardNodeOrder(p) ==
  [i \in 1..(Len(CardLabels) * Len(CopySuffixes)) |->
     <<p, CardLabels[((i - 1) \div Len(CopySuffixes)) + 1],
       CopySuffixes[((i - 1) % Len(CopySuffixes)) + 1]>>]

NodeOrder ==
  <<GameNode, PlayerNode("p1")>> \o CardNodeOrder("p1")
  \o <<PlayerNode("p2")>> \o CardNodeOrder("p2")

NodeRank(n) == CHOOSE i \in 1..Len(NodeOrder) : NodeOrder[i] = n

\* the action types in string order (upper case sorts before lower case)
ActionTypeOrder == <<"CAN_PASS", Action_CHALLENGE, Action_INK, Action_PASS, Action_PLAY, Action_QUEST>>

ActionTypeRank(t) == CHOOSE i \in 1..Len(ActionTypeOrder) : ActionTypeOrder[i] = t

(***************************************************************************)
(* lib/core/graph.py                                                       *)
(***************************************************************************)
edges_by_label(S, label) == SelectSeq(S.edges, LAMBDA e : e.label = label)

can_edges(S) == S.can

(***************************************************************************)
(* lib/lorcana/helpers.py                                                  *)
(***************************************************************************)
get_player_step(player, step) == <<"step", player, step>>

\* the 'step' attribute of a step node
step_attr(step_node) == step_node[3]

\* the 'player' attribute of a step node
step_player(step_node) == step_node[2]

other(player) == IF player = "p1" THEN "p2" ELSE "p1"

HasContext(S) == edges_by_label(S, Edge_CURRENT_TURN) /= <<>>

get_game_context(S) ==
  LET player == edges_by_label(S, Edge_CURRENT_TURN)[1].dst[1]
  IN  [player |-> player, opponent |-> other(player), current_turn |-> S.turn]

get_card_data(S, card_node) == get_card_db[S.cards[card_node].label]

\* G.nodes() is walked in node order; the enumerations are sorted afterwards,
\* so the walk is taken in id order here
cards_in_zone(S, player, zone) ==
  SelectSeq(NodeOrder,
            LAMBDA n : /\ n \in DOMAIN S.cards
                       /\ Owner(n) = player
                       /\ S.cards[n].zone = zone)

has_keyword(S, card_node, keyword) ==
  \E i \in 1..Len(S.edges) :
    S.edges[i].dst = card_node /\ S.edges[i].label = keyword

has_edge(S, card_node, label) ==
  \E i \in 1..Len(S.edges) :
    S.edges[i].dst = card_node /\ S.edges[i].label = label

card_data_has_keyword(card_data, keyword) ==
  \E i \in 1..Len(card_data.abilities) : card_data.abilities[i] = keyword

ActionEdge(src, dst, action_type, description, metadata) ==
  [src |-> src, dst |-> dst, action_type |-> action_type,
   description |-> description, metadata |-> metadata]

(***************************************************************************)
(* lib/lorcana/cards.py                                                    *)
(***************************************************************************)
Max(a, b) == IF a >= b THEN a ELSE b

get_strength(S, card_node) == Max(0, get_card_data(S, card_node).strength)

get_willpower(S, card_node) == Max(0, get_card_data(S, card_node).willpower)

(***************************************************************************)
(* lib/lorcana/state.py                                                    *)
(***************************************************************************)
deck_of(S, player) == IF player = "p1" THEN S.deck1_ids ELSE S.deck2_ids

\* a deck id is <<base_name, suffix>>; the node id prefixes the player
create_card_node(S, card_id, player, zone) ==
  [S EXCEPT !.cards =
     [n \in DOMAIN S.cards \cup {<<player, card_id[1], card_id[2]>>} |->
        IF n = <<player, card_id[1], card_id[2]>>
        THEN [label |-> card_id[1], zone |-> zone, exerted |-> 0,
              damage |-> 0, entered_play |-> -1]
        ELSE S.cards[n]]]

RECURSIVE create_card_nodes(_, _, _, _)
create_card_nodes(S, ids, player, zone) ==
  IF ids = <<>> THEN S
  ELSE create_card_nodes(create_card_node(S, Head(ids), player, zone),
                         Tail(ids), player, zone)

\* a variant that leaves the drawn ids in the deck
draw_deck_kept(S, player, count) ==
  LET deck_ids == deck_of(S, player)
      n == IF count <= Len(deck_ids) THEN count ELSE Len(deck_ids)
  IN  create_card_nodes(S, SubSeq(deck_ids, 1, n), player, Zone_HAND)

draw(S, player, count) ==
  LET deck_ids == deck_of(S, player)
      n == IF count <= Len(deck_ids) THEN count ELSE Len(deck_ids)
      drawn == create_card_nodes(S, SubSeq(deck_ids, 1, n), player, Zone_HAND)
      remaining == SubSeq(deck_ids, n + 1, Len(deck_ids))
  IN  IF player = "p1" THEN [drawn EXCEPT !.deck1_ids = remaining]
      ELSE [drawn EXCEPT !.deck2_ids = remaining]

\* mutant: the game ends without a winner being recorded
add_lore_no_winner(S, player, amount) ==
  LET new_lore == S.lore[player] + amount
      S1 == [S EXCEPT !.lore[player] = new_lore]
  IN  IF new_lore >= WinLore
      THEN [S1 EXCEPT !.game_over = 1]
      ELSE S1

\* mutant: the win check misses a lore of exactly 20
add_lore_above_only(S, player, amount) ==
  LET new_lore == S.lore[player] + amount
      S1 == [S EXCEPT !.lore[player] = new_lore]
  IN  IF new_lore > WinLore
      THEN [S1 EXCEPT !.winner = player, !.game_over = 1]
      ELSE S1

add_lore(S, player, amount) ==
  LET new_lore == S.lore[player] + amount
      S1 == [S EXCEPT !.lore[player] = new_lore]
  IN  IF new_lore >= WinLore
      THEN [S1 EXCEPT !.winner = player, !.game_over = 1]
      ELSE S1

move_card(S, card_node, zone) == [S EXCEPT !.cards[card_node].zone = zone]

damage_card(S, card_node, amount) ==
  [S EXCEPT !.cards[card_node].damage = @ + amount]

(***************************************************************************)
(* lib/lorcana/abilities.py                                                *)
(***************************************************************************)
next_ability_seq(S, keyword, turn) ==
  CHOOSE seq \in 1..(Cardinality(S.abilities) + 1) :
    /\ <<keyword, turn, seq>> \notin S.abilities
    /\ \A k \in 1..(seq - 1) : <<keyword, turn, k>> \in S.abilities

create_ability(S, card_node, keyword, turn) ==
  LET ability_id == <<keyword, turn, next_ability_seq(S, keyword, turn)>>
  IN  [S EXCEPT
         !.abilities = @ \cup {ability_id},
         !.edges = @ \o << [src |-> ability_id, dst |-> card_node, label |-> keyword],
                           [src |-> ability_id, dst |-> card_node, label |-> Edge_SOURCE] >>]

RECURSIVE create_printed_abilities(_, _, _, _)
create_printed_abilities(S, card_node, abilities, turn) ==
  IF abilities = <<>> THEN S
  ELSE LET keyword == Head(abilities)
           S1 == IF keyword = "Rush"
                 THEN create_ability(S, card_node, Keyword_RUSH, turn)
                 ELSE IF keyword = "Evasive"
                      THEN create_ability(S, card_node, Keyword_EVASIVE, turn)
                      ELSE S
       IN  create_printed_abilities(S1, card_node, Tail(abilities), turn)

(***************************************************************************)
(* lib/lorcana/mechanics/ink.py                                            *)
(***************************************************************************)
\* a variant without the inkwell test
compute_can_ink_any_card(S) ==
  IF ~HasContext(S) THEN <<>>
  ELSE LET ctx == get_game_context(S)
           cards_in_hand == cards_in_zone(S, ctx.player, Zone_HAND)
       IN  IF S.ink_drops[ctx.player] <= 0 THEN <<>>
           ELSE [i \in 1..Len(cards_in_hand) |->
                   ActionEdge(cards_in_hand[i], PlayerNode(ctx.player), Action_INK,
                              <<"ink", cards_in_hand[i]>>, NoMetadata)]

\* a variant without the ink_drops test
compute_can_ink_unlimited(S) ==
  IF ~HasContext(S) THEN <<>>
  ELSE LET ctx == get_game_context(S)
           cards_in_hand == cards_in_zone(S, ctx.player, Zone_HAND)
           inkable == SelectSeq(cards_in_hand,
                                LAMBDA c : get_card_data(S, c).inkwell)
       IN  [i \in 1..Len(inkable) |->
              ActionEdge(inkable[i], PlayerNode(ctx.player), Action_INK,
                         <<"ink", inkable[i]>>, NoMetadata)]

compute_can_ink(S) ==
  IF ~HasContext(S) THEN <<>>
  ELSE LET ctx == get_game_context(S)
           cards_in_hand == cards_in_zone(S, ctx.player, Zone_HAND)
           inkable == SelectSeq(cards_in_hand,
                                LAMBDA c : get_card_data(S, c).inkwell)
       IN  IF S.ink_drops[ctx.player] <= 0 THEN <<>>
           ELSE [i \in 1..Len(inkable) |->
                   ActionEdge(inkable[i], PlayerNode(ctx.player), Action_INK,
                              <<"ink", inkable[i]>>, NoMetadata)]

\* mutant: the inkwell total is not incremented
execute_ink_total_kept(S, from_node) ==
  LET S1 == move_card(S, from_node, Zone_INK)
      ctx == get_game_context(S1)
  IN  [S1 EXCEPT !.ink_drops[ctx.player] = @ - 1,
                 !.ink_available[ctx.player] = @ + 1]

\* a variant that adds the ink to both players' available ink
execute_ink_both(S, from_node) ==
  LET S1 == move_card(S, from_node, Zone_INK)
      ctx == get_game_context(S1)
  IN  [S1 EXCEPT !.ink_drops[ctx.player] = @ - 1,
                 !.ink_total[ctx.player] = @ + 1,
                 !.ink_available = [p \in Players |-> @[p] + 1]]

execute_ink(S, from_node) ==
  LET S1 == move_card(S, from_node, Zone_INK)
      ctx == get_game_context(S1)
  IN  [S1 EXCEPT !.ink_drops[ctx.player] = @ - 1,
                 !.ink_total[ctx.player] = @ + 1,
                 !.ink_available[ctx.player] = @ + 1]

(***************************************************************************)
(* lib/lorcana/mechanics/play.py                                           *)
(***************************************************************************)
\* a variant that asks for more ink than the cost
compute_can_play_strict(S) ==
  IF ~HasContext(S) THEN <<>>
  ELSE LET ctx == get_game_context(S)
           ink_available == S.ink_available[ctx.player]
           cards_in_hand == cards_in_zone(S, ctx.player, Zone_HAND)
           options(c) ==
             IF ink_available > get_card_data(S, c).cost
             THEN <<ActionEdge(c, PlayerNode(ctx.player), Action_PLAY,
                               <<"play", c>>, NoMetadata)>>
                  \o (IF card_data_has_keyword(get_card_data(S, c), "Bodyguard")
                      THEN <<ActionEdge(c, PlayerNode(ctx.player), Action_PLAY,
                                        <<"play", c, "exerted">>,
                                        [exerted |-> TRUE])>>
                      ELSE <<>>)
             ELSE <<>>
           result[i \in 0..Len(cards_in_hand)] ==
             IF i = 0 THEN <<>> ELSE result[i - 1] \o options(cards_in_hand[i])
       IN  result[Len(cards_in_hand)]

compute_can_play(S) ==
  IF ~HasContext(S) THEN <<>>
  ELSE LET ctx == get_game_context(S)
           ink_available == S.ink_available[ctx.player]
           cards_in_hand == cards_in_zone(S, ctx.player, Zone_HAND)
           options(c) ==
             IF ink_available >= get_card_data(S, c).cost
             THEN <<ActionEdge(c, PlayerNode(ctx.player), Action_PLAY,
                               <<"play", c>>, NoMetadata)>>
                  \o (IF card_data_has_keyword(get_card_data(S, c), "Bodyguard")
                      THEN <<ActionEdge(c, PlayerNode(ctx.player), Action_PLAY,
                                        <<"play", c, "exerted">>,
                                        [exerted |-> TRUE])>>
                      ELSE <<>>)
             ELSE <<>>
           result[i \in 0..Len(cards_in_hand)] ==
             IF i = 0 THEN <<>> ELSE result[i - 1] \o options(cards_in_hand[i])
       IN  result[Len(cards_in_hand)]

\* a variant that puts every card into play
execute_play_all_stay(S, from_node, to_node, metadata) ==
  LET card_data == get_card_data(S, from_node)
      ctx == get_game_context(S)
      S1 == move_card(S, from_node, Zone_PLAY)
      S2 == [S1 EXCEPT !.ink_available[ctx.player] = @ - card_data.cost]
  IN  create_printed_abilities(
        [S2 EXCEPT !.cards[from_node].entered_play = ctx.current_turn,
                   !.cards[from_node].exerted =
                      IF metadata.exerted THEN 1 ELSE 0],
        from_node, card_data.abilities, ctx.current_turn)

execute_play(S, from_node, to_node, metadata) ==
  LET card_data == get_card_data(S, from_node)
      ctx == get_game_context(S)
      zone == IF card_data.type = CardType_ACTION THEN Zone_DISCARD ELSE Zone_PLAY
      S1 == move_card(S, from_node, zone)
      S2 == [S1 EXCEPT !.ink_available[ctx.player] = @ - card_data.cost]
  IN  IF zone = Zone_PLAY
      THEN create_printed_abilities(
             [S2 EXCEPT !.cards[from_node].entered_play = ctx.current_turn,
                        !.cards[from_node].exerted =
                           IF metadata.exerted THEN 1 ELSE 0],
             from_node, card_data.abilities, ctx.current_turn)
      ELSE S2

(***************************************************************************)
(* lib/lorcana/mechanics/quest.py                                          *)
(***************************************************************************)
\* a variant in which a character without lore does not quest
compute_can_quest_lore_needed(S) ==
  IF ~HasContext(S) THEN <<>>
  ELSE LET ctx == get_game_context(S)
           cards_in_play == cards_in_zone(S, ctx.player, Zone_PLAY)
           able == SelectSeq(cards_in_play,
                     LAMBDA c : /\ get_card_data(S, c).type = CardType_CHARACTER
                                /\ S.cards[c].exerted /= 1
                                /\ S.cards[c].entered_play /= ctx.current_turn
                                /\ ~has_edge(S, c, Edge_CANT_QUEST)
                                /\ get_card_data(S, c).lore > 0)
       IN  [i \in 1..Len(able) |->
              ActionEdge(able[i], PlayerNode(ctx.player), Action_QUEST,
                         <<"quest", able[i]>>, NoMetadata)]

compute_can_quest(S) ==
  IF ~HasContext(S) THEN <<>>
  ELSE LET ctx == get_game_context(S)
           cards_in_play == cards_in_zone(S, ctx.player, Zone_PLAY)
           able == SelectSeq(cards_in_play,
                     LAMBDA c : /\ get_card_data(S, c).type = CardType_CHARACTER
                                /\ S.cards[c].exerted /= 1
                                /\ S.cards[c].entered_play /= ctx.current_turn
                                /\ ~has_edge(S, c, Edge_CANT_QUEST))
       IN  [i \in 1..Len(able) |->
              ActionEdge(able[i], PlayerNode(ctx.player), Action_QUEST,
                         <<"quest", able[i]>>, NoMetadata)]

\* a variant that leaves the character ready
execute_quest_ready(S, from_node, to_node) ==
  add_lore(S, to_node[1], get_card_data(S, from_node).lore)

execute_quest(S, from_node, to_node) ==
  LET S1 == [S EXCEPT !.cards[from_node].exerted = 1]
  IN  add_lore(S1, to_node[1], get_card_data(S1, from_node).lore)

(***************************************************************************)
(* lib/lorcana/mechanics/challenge.py                                      *)
(***************************************************************************)
\* a variant without the drying test
compute_can_challenge_wet(S) ==
  IF ~HasContext(S) THEN <<>>
  ELSE LET ctx == get_game_context(S)
           cards_in_play == cards_in_zone(S, ctx.player, Zone_PLAY)
           opponent_cards == cards_in_zone(S, ctx.opponent, Zone_PLAY)
           challengers ==
             SelectSeq(cards_in_play,
               LAMBDA c : /\ get_card_data(S, c).type = CardType_CHARACTER
                          /\ S.cards[c].exerted /= 1
                          /\ TRUE)
           targets(challenger) ==
             SelectSeq(opponent_cards,
               LAMBDA d : /\ get_card_data(S, d).type = CardType_CHARACTER
                          /\ S.cards[d].exerted = 1
                          /\ ~(/\ has_keyword(S, d, Keyword_EVASIVE)
                               /\ ~has_keyword(S, challenger, Keyword_EVASIVE)
                               /\ ~has_keyword(S, challenger, Keyword_ALERT)))
           valid(challenger) ==
             [j \in 1..Len(targets(challenger)) |->
                ActionEdge(challenger, targets(challenger)[j], Action_CHALLENGE,
                           <<"challenge", challenger, targets(challenger)[j]>>,
                           NoMetadata)]
           result[i \in 0..Len(challengers)] ==
             IF i = 0 THEN <<>> ELSE result[i - 1] \o valid(challengers[i])
       IN  result[Len(challengers)]

compute_can_challenge(S) ==
  IF ~HasContext(S) THEN <<>>
  ELSE LET ctx == get_game_context(S)
           cards_in_play == cards_in_zone(S, ctx.player, Zone_PLAY)
           opponent_cards == cards_in_zone(S, ctx.opponent, Zone_PLAY)
           challengers ==
             SelectSeq(cards_in_play,
               LAMBDA c : /\ get_card_data(S, c).type = CardType_CHARACTER
                          /\ S.cards[c].exerted /= 1
                          /\ ~(/\ S.cards[c].entered_play = ctx.current_turn
                               /\ ~has_keyword(S, c, Keyword_RUSH)))
           targets(challenger) ==
             SelectSeq(opponent_cards,
               LAMBDA d : /\ get_card_data(S, d).type = CardType_CHARACTER
                          /\ S.cards[d].exerted = 1
                          /\ ~(/\ has_keyword(S, d, Keyword_EVASIVE)
                               /\ ~has_keyword(S, challenger, Keyword_EVASIVE)
                               /\ ~has_keyword(S, challenger, Keyword_ALERT)))
           valid(challenger) ==
             [j \in 1..Len(targets(challenger)) |->
                ActionEdge(challenger, targets(challenger)[j], Action_CHALLENGE,
                           <<"challenge", challenger, targets(challenger)[j]>>,
                           NoMetadata)]
           result[i \in 0..Len(challengers)] ==
             IF i = 0 THEN <<>> ELSE result[i - 1] \o valid(challengers[i])
       IN  result[Len(challengers)]

\* a variant in which the defender deals no damage
execute_challenge_one_way(S, attacker, defender) ==
  LET S1 == [S EXCEPT !.cards[attacker].exerted = 1]
  IN  damage_card(S1, defender, get_strength(S1, attacker))

execute_challenge(S, attacker, defender) ==
  LET S1 == [S EXCEPT !.cards[attacker].exerted = 1]
      attacker_strength == get_strength(S1, attacker)
      defender_strength == get_strength(S1, defender)
  IN  damage_card(damage_card(S1, defender, attacker_strength),
                  attacker, defender_strength)

(***************************************************************************)
(* lib/lorcana/mechanics/turn.py                                           *)
(* The edge labels and the action type are the literals of turn.py, which  *)
(* are upper case, while constants.py (Edge, Action) is lower case.        *)
(***************************************************************************)
compute_can_pass(S) ==
  LET current_step_edges == edges_by_label(S, "CURRENT_STEP")
  IN  IF current_step_edges = <<>> \/ ~HasContext(S) THEN <<>>
      ELSE IF step_attr(current_step_edges[1].dst) = "main"
           THEN <<ActionEdge(PlayerNode(get_game_context(S).player), GameNode,
                             "CAN_PASS", <<"end">>, NoMetadata)>>
           ELSE <<>>

\* G.remove_edge of the first edge that carries the label
remove_first(edges, label) ==
  LET i == CHOOSE k \in 1..Len(edges) :
             edges[k].label = label /\ \A j \in 1..(k - 1) : edges[j].label /= label
  IN  SubSeq(edges, 1, i - 1) \o SubSeq(edges, i + 1, Len(edges))

move_to_step(S, step_node) ==
  LET S1 == IF edges_by_label(S, "CURRENT_STEP") /= <<>>
            THEN [S EXCEPT !.edges = remove_first(@, "CURRENT_STEP")]
            ELSE S
  IN  [S1 EXCEPT !.edges = Append(@, [src |-> GameNode, dst |-> step_node,
                                      label |-> "CURRENT_STEP"])]

end_step(S, player) == S

ready_step(S, player) ==
  [S EXCEPT !.cards =
     [n \in DOMAIN S.cards |->
        IF Owner(n) = player /\ S.cards[n].zone = Zone_PLAY
        THEN [S.cards[n] EXCEPT !.exerted = 0]
        ELSE S.cards[n]]]

set_step(S, player) ==
  [S EXCEPT !.ink_drops[player] = 1,
            !.ink_available[player] = S.ink_total[player]]

\* a variant without the exception for the first turn
draw_step_always(S, player) ==
  IF Len(deck_of(S, player)) = 0
  THEN [S EXCEPT !.winner = other(player), !.game_over = 1]
  ELSE draw(S, player, 1)

draw_step(S, player) ==
  IF player = "p1" /\ S.turn = 1 THEN S
  ELSE IF Len(deck_of(S, player)) = 0
       THEN [S EXCEPT !.winner = other(player), !.game_over = 1]
       ELSE draw(S, player, 1)

advance_turn(S, from_node, to_node) ==
  LET turn_edges == edges_by_label(S, "CURRENT_TURN")
  IN  IF turn_edges = <<>> THEN S
      ELSE
        LET current_player == turn_edges[1].dst[1]
            other_player == other(current_player)
            S1 == end_step(move_to_step(S, get_player_step(current_player, "end")),
                           current_player)
            S2 == [S1 EXCEPT
                     !.edges = Append(remove_first(@, "CURRENT_TURN"),
                                      [src |-> GameNode,
                                       dst |-> PlayerNode(other_player),
                                       label |-> "CURRENT_TURN"]),
                     !.turn = @ + 1]
            S3 == ready_step(move_to_step(S2, get_player_step(other_player, "ready")),
                             other_player)
            S4 == set_step(move_to_step(S3, get_player_step(other_player, "set")),
                           other_player)
            S5 == draw_step(move_to_step(S4, get_player_step(other_player, "draw")),
                            other_player)
        IN  move_to_step(S5, get_player_step(other_player, "main"))

(***************************************************************************)
(* lib/lorcana/state_based_effects.py                                      *)
(***************************************************************************)
cards_to_banish(S) ==
  {n \in DOMAIN S.cards :
     /\ S.cards[n].zone = Zone_PLAY
     /\ get_card_data(S, n).type = CardType_CHARACTER
     /\ S.cards[n].damage /= 0
     /\ S.cards[n].damage >= get_willpower(S, n)}

\* mutant: damage equal to willpower does not banish
check_and_banish_above_only(S) ==
  [S EXCEPT !.cards =
     [n \in DOMAIN S.cards |->
        IF /\ n \in cards_to_banish(S)
           /\ S.cards[n].damage > get_willpower(S, n)
        THEN [S.cards[n] EXCEPT !.zone = Zone_DISCARD]
        ELSE S.cards[n]]]

check_and_banish_damaged_characters(S) ==
  [S EXCEPT !.cards =
     [n \in DOMAIN S.cards |->
        IF n \in cards_to_banish(S)
        THEN [S.cards[n] EXCEPT !.zone = Zone_DISCARD]
        ELSE S.cards[n]]]

check_state_based_effects(S) == check_and_banish_damaged_characters(S)

(***************************************************************************)
(* lib/lorcana/compute.py                                                  *)
(***************************************************************************)
BASE36_CHARS ==
  << "0", "1", "2", "3", "4", "5", "6", "7", "8", "9", "a", "b", "c", "d", "e",
     "f", "g", "h", "i", "j", "k", "l", "m", "n", "o", "p", "q", "r", "s", "t",
     "u", "v", "w", "x", "y", "z" >>

RECURSIVE base36_digits(_)
base36_digits(n) ==
  IF n = 0 THEN <<>>
  ELSE Append(base36_digits(n \div 36), BASE36_CHARS[(n % 36) + 1])

\* an action id is the sequence of its characters
to_base36(n) == IF n = 0 THEN <<"0">> ELSE base36_digits(n)

\* mutant: the filter is inverted, the labelled edges are removed instead
clear_can_edges_inverted(S) == [S EXCEPT !.edges = <<>>]

\* a variant that removes nothing
clear_can_edges_none(S) == S

clear_can_edges(S) == [S EXCEPT !.can = <<>>]

add_can_edge(edge, action_id) ==
  [src |-> edge.src, dst |-> edge.dst, action_type |-> edge.action_type,
   action_id |-> action_id, description |-> edge.description]

\* the key of sorted(): (action_type, src, dst), compared as strings
KeyLess(e, f) ==
  \/ ActionTypeRank(e.action_type) < ActionTypeRank(f.action_type)
  \/ /\ e.action_type = f.action_type
     /\ \/ NodeRank(e.src) < NodeRank(f.src)
        \/ e.src = f.src /\ NodeRank(e.dst) < NodeRank(f.dst)

\* insert e after every element whose key is not greater (a stable sort)
RECURSIVE insert_sorted(_, _)
insert_sorted(sorted_seq, e) ==
  IF sorted_seq = <<>> THEN <<e>>
  ELSE IF KeyLess(e, sorted_seq[Len(sorted_seq)])
       THEN Append(insert_sorted(SubSeq(sorted_seq, 1, Len(sorted_seq) - 1), e),
                   sorted_seq[Len(sorted_seq)])
       ELSE Append(sorted_seq, e)

\* mutant: the edges keep their emission order
sorted_not(edges_to_add) == edges_to_add

sorted(edges_to_add) ==
  LET result[i \in 0..Len(edges_to_add)] ==
        IF i = 0 THEN <<>> ELSE insert_sorted(result[i - 1], edges_to_add[i])
  IN  result[Len(edges_to_add)]

enumerate_edges(S) ==
  compute_can_pass(S) \o compute_can_ink(S) \o compute_can_play(S)
    \o compute_can_quest(S) \o compute_can_challenge(S)

compute_all(S) ==
  LET G == clear_can_edges(S)
  IN  IF G.game_over = 1 THEN G
      ELSE LET sorted_edges == sorted(enumerate_edges(G))
           IN  [G EXCEPT !.can =
                  @ \o [idx \in 1..Len(sorted_edges) |->
                         add_can_edge(sorted_edges[idx], to_base36(idx - 1))]]

(***************************************************************************)
(* lib/lorcana/execute.py                                                  *)
(***************************************************************************)
execute_action(S, action_type, from_node, to_node, metadata) ==
  LET S1 == IF action_type = Action_PASS
            THEN advance_turn(S, from_node, to_node)
            ELSE IF action_type = Action_INK
            THEN execute_ink(S, from_node)
            ELSE IF action_type = Action_PLAY
            THEN execute_play(S, from_node, to_node, metadata)
            ELSE IF action_type = Action_QUEST
            THEN execute_quest(S, from_node, to_node)
            ELSE IF action_type = Action_CHALLENGE
            THEN execute_challenge(S, from_node, to_node)
            ELSE S
  IN  compute_all(check_state_based_effects(S1))

(***************************************************************************)
(* Initial states, built the way tests/lorcana/conftest.py builds them:    *)
(* make_game, then set_turn, give_ink, a lore value and add_character for  *)
(* the cards in hand and in play; the ids left over are the decks.         *)
(* GameSession takes any such state as its initial_state.                  *)
(***************************************************************************)
make_game ==
  [turn |-> 1, game_over |-> 0, winner |-> "",
   lore |-> [p \in Players |-> 0],
   ink_drops |-> [p \in Players |-> 1],
   ink_total |-> [p \in Players |-> 0],
   ink_available |-> [p \in Players |-> 0],
   cards |-> [n \in {} |-> 0],
   abilities |-> {},
   edges |-> << [src |-> GameNode, dst |-> PlayerNode("p1"),
                 label |-> Edge_CURRENT_TURN],
                [src |-> GameNode, dst |-> get_player_step("p1", "main"),
                 label |-> Edge_CURRENT_STEP] >>,
   can |-> <<>>,
   deck1_ids |-> <<>>, deck2_ids |-> <<>>]

add_character(S, player, name, zone, exerted, damage, entered_play) ==
  LET node_id == CardNode(player, name)
      S1 == [S EXCEPT !.cards =
               [n \in DOMAIN S.cards \cup {node_id} |->
                  IF n = node_id
                  THEN [label |-> name, zone |-> zone, exerted |-> exerted,
                        damage |-> damage, entered_play |-> entered_play]
                  ELSE S.cards[n]]]
  IN  IF zone = Zone_PLAY
      THEN create_printed_abilities(S1, node_id, get_card_db[name].abilities,
                                    entered_play)
      ELSE S1

give_ink(S, player, amount) ==
  [S EXCEPT !.ink_total[player] = amount, !.ink_available[player] = amount]

set_turn(S, turn_number) == [S EXCEPT !.turn = turn_number]

make_state(S, deck1_ids, deck2_ids) ==
  [S EXCEPT !.deck1_ids = deck1_ids, !.deck2_ids = deck2_ids]

\* the values the initial states are drawn from
InitGames == { [turn |-> 3, lore |-> 17] }

InitInks == {0, 3}

HandLabels ==
  { "cri_kee_good_luck_charm", "gaston_arrogant_hunter", "rafiki_mysterious_sage",
    "simba_protective_cub", "stitch_new_dog" }

\* in play at the start: cards whose ability nodes add_character creates
AttackerLabels == {"rafiki_mysterious_sage", "stitch_new_dog", "stitch_rock_star"}

DefenderLabels == {"peter_pan_never_landing", "rafiki_mysterious_sage", "stitch_new_dog"}

Hands == {h \in SUBSET HandLabels : Cardinality(h) <= MaxHand}

\* a card in play at the start: none, or its label and attributes
NoCard == [label |-> "", exerted |-> 0, damage |-> 0, drying |-> FALSE]

InPlayChoices(labels, exertions, damages, dryings) ==
  {NoCard} \cup
  { c \in [label : labels, exerted : exertions, damage : damages,
            drying : dryings] :
      c.damage < get_card_db[c.label].willpower }

RECURSIVE add_hand(_, _, _)
add_hand(S, player, names) ==
  IF names = <<>> THEN S
  ELSE add_hand(add_character(S, player, Head(names), Zone_HAND, 0, 0, 0),
                player, Tail(names))

add_in_play(S, player, c) ==
  IF c = NoCard THEN S
  ELSE add_character(S, player, c.label, Zone_PLAY, c.exerted, c.damage,
                     IF c.drying THEN S.turn ELSE 0)

\* the ids of a player's cards that are not nodes yet, in decklist order
deck_ids(S, player) ==
  LET rest == SelectSeq(Labels, LAMBDA l : CardNode(player, l) \notin DOMAIN S.cards)
  IN  [i \in 1..Len(rest) |-> <<rest[i], "a">>]

InitialState(turn, lore, ink, hand, attacker, defender) ==
  LET S0 == give_ink(set_turn(make_game, turn), "p1", ink)
      S1 == [S0 EXCEPT !.lore["p1"] = lore]
      S2 == add_hand(S1, "p1", SelectSeq(Labels, LAMBDA l : l \in hand))
      S3 == add_in_play(add_in_play(S2, "p1", attacker), "p2", defender)
  IN  compute_all(make_state(S3, deck_ids(S3, "p1"), deck_ids(S3, "p2")))

IsInitialState(S) ==
  \E g \in InitGames, ink \in InitInks, h \in Hands :
    \E a \in InPlayChoices(AttackerLabels \ h, {0}, {0}, {FALSE, TRUE}),
       d \in InPlayChoices(DefenderLabels, {0, 1}, 0..MaxInitDamage, {FALSE}) :
      S = InitialState(g.turn, g.lore, ink, h, a, d)

(***************************************************************************)
(* lib/lorcana/game_api.py: what GameSession.apply_action does to the      *)
(* state it loaded.                                                        *)
(***************************************************************************)
NoAction ==
  [src |-> <<"none">>, dst |-> <<"none">>, action_type |-> "none",
   action_id |-> <<>>, description |-> <<>>]

has_action(S, action_id) ==
  \E i \in 1..Len(can_edges(S)) : can_edges(S)[i].action_id = action_id

\* the first action edge that carries the id
find_action(S, action_id) ==
  LET i == CHOOSE k \in 1..Len(can_edges(S)) :
             /\ can_edges(S)[k].action_id = action_id
             /\ \A j \in 1..(k - 1) : can_edges(S)[j].action_id /= action_id
  IN  can_edges(S)[i]

apply_action(S, action_id) ==
  IF has_action(S, action_id)
  THEN LET e == find_action(S, action_id)
       IN  execute_action(S, e.action_type, e.src, e.dst, NoMetadata)
  ELSE S

\* executing the action reaches _draw_step's deck-out branch
draws_from_empty_deck(S, action_type) ==
  /\ action_type = Action_PASS
  /\ edges_by_label(S, "CURRENT_TURN") /= <<>>
  /\ LET drawing == other(edges_by_label(S, "CURRENT_TURN")[1].dst[1])
     IN  /\ ~(drawing = "p1" /\ S.turn + 1 = 1)
         /\ Len(deck_of(S, drawing)) = 0

Init ==
  /\ IsInitialState(state)
  /\ last = NoAction
  /\ deck_out = FALSE
  /\ store = <<>>
  /\ current_key = <<>>
  /\ outcomes = <<>>
  /\ root_key = <<>>
  /\ outcome_refs = <<>>
  /\ objects = <<>>
  /\ files = <<>>
  /\ cache = <<>>

ApplyAction ==
  \E i \in 1..Len(can_edges(state)) :
    /\ state' = apply_action(state, can_edges(state)[i].action_id)
    /\ last' = can_edges(state)[i]
    /\ deck_out' = (deck_out \/ draws_from_empty_deck(state, can_edges(state)[i].action_type))
    /\ UNCHANGED <<store, current_key, outcomes, root_key, outcome_refs, store_vars>>

\* execute_action called with Action.PASS for the active player, as a caller
\* of the rules API ends a turn (compute_all never offers such an edge)
ExecutePass ==
  /\ HasContext(state)
  /\ LET player == get_game_context(state).player
     IN  /\ state' = execute_action(state, Action_PASS, PlayerNode(player),
                                    GameNode, NoMetadata)
         /\ last' = [src |-> PlayerNode(player), dst |-> GameNode,
                     action_type |-> Action_PASS, action_id |-> <<>>,
                     description |-> <<"end">>]
         /\ deck_out' = (deck_out \/ draws_from_empty_deck(state, Action_PASS))
  /\ UNCHANGED <<store, current_key, outcomes, root_key, outcome_refs, store_vars>>

Next == ApplyAction \/ ExecutePass

Spec == Init /\ [][Next]_vars

(***************************************************************************)
(* lib/core/outcome.py.  A path is the sequence of its '/'-separated       *)
(* parts; a part is a directory name <<name>> or an action id, the         *)
(* sequence of its characters.                                             *)
(***************************************************************************)
\* the directory names that match one of find_seed_path's two patterns,
\* ^[a-z0-9]{7}\.[a-z0-9]{7}\.[a-z]{2}$ and ^[a-z0-9]{8}$
SeedDirs == { <<"b123456.0123456.ab">>, <<"xzp8iq8p">> }

\* find_seed_path's None
NoSeedPath == <<>>

find_seed_path(path) ==
  IF \E i \in 1..Len(path) : path[i] \in SeedDirs
  THEN LET i == CHOOSE k \in 1..Len(path) :
                  /\ path[k] \in SeedDirs
                  /\ \A j \in 1..(k - 1) : path[j] \notin SeedDirs
       IN  SubSeq(path, 1, i)
  ELSE NoSeedPath

\* "".join(action_path)
RECURSIVE join(_)
join(action_path) ==
  IF action_path = <<>> THEN <<>>
  ELSE Head(action_path) \o join(Tail(action_path))

(***************************************************************************)
(* lib/core/memory_store.py                                                *)
(***************************************************************************)
\* a variant that shares one object between all the keys
save_state_shared(st, S, path) == [k \in DOMAIN st \cup {path} |-> S]

\* MemoryStore.save_state: set or overwrite one key (a deep copy: a value)
save_state(st, S, path) ==
  [k \in DOMAIN st \cup {path} |-> IF k = path THEN S ELSE st[k]]

\* MemoryStore.save_outcome with suffix None: the outcome of a winning state
save_outcome(oc, path, data) ==
  [k \in DOMAIN oc \cup {path} |-> IF k = path THEN data ELSE oc[k]]

NoOutcomeRefs == [outcomes |-> <<>>, p1_wins |-> <<>>, p2_wins |-> <<>>]

\* MemoryStore.get_outcomes
get_outcomes(refs, path) ==
  IF path \in DOMAIN refs THEN refs[path] ELSE NoOutcomeRefs

\* MemoryStore.save_outcome with a suffix: the aggregated record of a parent
save_outcome_ref(refs, path, suffix, data) ==
  LET cur == get_outcomes(refs, path)
      first_action == IF suffix /= <<>> THEN <<suffix[1]>> ELSE <<>>
      count == IF first_action \in DOMAIN cur.outcomes
               THEN cur.outcomes[first_action]
               ELSE [p1_wins |-> 0, p2_wins |-> 0]
      counted == CASE data.winner = "p1" -> [count EXCEPT !.p1_wins = @ + 1]
                   [] data.winner = "p2" -> [count EXCEPT !.p2_wins = @ + 1]
                   [] OTHER -> count
      new == [outcomes |->
                [a \in DOMAIN cur.outcomes \cup {first_action} |->
                   IF a = first_action THEN counted ELSE cur.outcomes[a]],
              p1_wins |-> IF data.winner = "p1"
                          THEN Append(cur.p1_wins, suffix) ELSE cur.p1_wins,
              p2_wins |-> IF data.winner = "p2"
                          THEN Append(cur.p2_wins, suffix) ELSE cur.p2_wins]
  IN  [k \in DOMAIN refs \cup {path} |-> IF k = path THEN new ELSE refs[k]]

\* backpropagate(winning_path, stop_at, on_level) with the on_level of
\* GameSession.apply_action, save_outcome(parent, suffix, outcome_data)
RECURSIVE backpropagate(_, _, _, _, _)
backpropagate(current, stop_at, action_path, refs, data) ==
  IF current = stop_at \/ Len(current) < 2 THEN refs
  ELSE LET parent == SubSeq(current, 1, Len(current) - 1)
           path2 == <<current[Len(current)]>> \o action_path
           refs2 == save_outcome_ref(refs, parent, join(path2), data)
       IN  IF parent = stop_at THEN refs2
           ELSE backpropagate(parent, stop_at, path2, refs2, data)

(***************************************************************************)
(* lib/lorcana/game_api.py: GameSession over a MemoryStore.  store maps a  *)
(* key to the state saved under it (save_state and load_state deep-copy,   *)
(* so a stored state is a value), outcomes maps a terminal key to its      *)
(* outcome data.  The root key is the default "root", a seed directory, or *)
(* a seed directory below "output" (GameSession.from_file).                *)
(***************************************************************************)
MaxStored == 3

MaxSessionIds == 4

MaxWins == 2

RootKeys ==
  { << <<"root">> >>, << <<"xzp8iq8p">> >>,
    << <<"output">>, <<"b123456.0123456.ab">> >> }

get_state == store[current_key]

NotFound(action_id) ==
  [NoAction EXCEPT !.action_type = "not_found", !.action_id = action_id]

\* the initial states of the sessions: p1 is three lore short of winning
SessionHands == {h \in Hands : Cardinality(h) <= 1}

SessionAttackers ==
  { [label |-> "stitch_rock_star", exerted |-> 0, damage |-> 0, drying |-> FALSE] }

SessionDefenders ==
  { NoCard, [label |-> "stitch_new_dog", exerted |-> 1, damage |-> 0, drying |-> FALSE] }

RECURSIVE add_board(_, _, _, _)
add_board(S, player, names, exerted) ==
  IF names = <<>> THEN S
  ELSE add_board(add_character(S, player, Head(names), Zone_PLAY, exerted, 0, 0),
                 player, Tail(names), exerted)

\* every card of both lists in play, p1's ready and p2's exerted: a state
\* with more than 36 action edges, the last of them the winning quest
FullBoard ==
  LET S0 == set_turn(make_game, 3)
      S1 == [S0 EXCEPT !.lore["p1"] = 17]
      S2 == add_board(add_board(S1, "p1", Labels, 0), "p2", Labels, 1)
  IN  compute_all(make_state(S2, <<>>, <<>>))

IsSessionInitialState(S) ==
  \/ \E ink \in InitInks, h \in SessionHands, a \in SessionAttackers,
        d \in SessionDefenders :
       S = InitialState(3, 17, ink, h, a, d)
  \/ S = FullBoard

\* the ids a caller passes to apply_action: the first ones (the later of
\* them no edge carries) and the id of FullBoard's last action
SessionIds ==
  {to_base36(n) : n \in 0..(MaxSessionIds - 1)}
    \cup {to_base36(Len(can_edges(FullBoard)) - 1)}

\* the session as GameSession.apply_action finds it
session == [ok |-> TRUE, store |-> store, current_key |-> current_key,
            outcomes |-> outcomes, outcome_refs |-> outcome_refs]

outcome_data(S) ==
  [winner |-> S.winner, p1_lore |-> S.lore["p1"], p2_lore |-> S.lore["p2"]]

\* a variant that leaves a copy of the loaded state under the new key when
\* no edge carries the id
GameSession_apply_action_saving(sess, action_id) ==
  LET S == sess.store[sess.current_key]
      new_key == Append(sess.current_key, action_id)
      T == apply_action(S, action_id)
      seed_path == find_seed_path(new_key)
  IN  IF has_action(S, action_id)
      THEN [ok |-> TRUE,
            store |-> save_state(sess.store, T, new_key),
            current_key |-> new_key,
            outcomes |-> IF T.game_over = 1
                         THEN save_outcome(sess.outcomes, new_key, outcome_data(T))
                         ELSE sess.outcomes,
            outcome_refs |-> IF T.game_over = 1 /\ seed_path /= NoSeedPath
                             THEN backpropagate(new_key, seed_path, <<>>,
                                                sess.outcome_refs, outcome_data(T))
                             ELSE sess.outcome_refs]
      ELSE [sess EXCEPT !.ok = FALSE, !.store = save_state(sess.store, S, new_key)]

\* GameSession.apply_action(action_id): the session after the call, ok its
\* return value
GameSession_apply_action(sess, action_id) ==
  LET S == sess.store[sess.current_key]
      new_key == Append(sess.current_key, action_id)
      T == apply_action(S, action_id)
      seed_path == find_seed_path(new_key)
  IN  IF has_action(S, action_id)
      THEN [ok |-> TRUE,
            store |-> save_state(sess.store, T, new_key),
            current_key |-> new_key,
            outcomes |-> IF T.game_over = 1
                         THEN save_outcome(sess.outcomes, new_key, outcome_data(T))
                         ELSE sess.outcomes,
            outcome_refs |-> IF T.game_over = 1 /\ seed_path /= NoSeedPath
                             THEN backpropagate(new_key, seed_path, <<>>,
                                                sess.outcome_refs, outcome_data(T))
                             ELSE sess.outcome_refs]
      ELSE [sess EXCEPT !.ok = FALSE]

\* the suffixes recorded at a path
recorded(refs, path) ==
  Len(get_outcomes(refs, path).p1_wins) + Len(get_outcomes(refs, path).p2_wins)

\* GameSession.__init__: the full board under the key of a seed directory,
\* the other initial states under the other root keys
SessionInit ==
  /\ IsSessionInitialState(state)
  /\ root_key \in RootKeys
  /\ (state = FullBoard) = (root_key = << <<"xzp8iq8p">> >>)
  /\ store = save_state(<<>>, state, root_key)
  /\ current_key = root_key
  /\ outcomes = <<>>
  /\ outcome_refs = <<>>
  /\ last = NoAction
  /\ deck_out = FALSE
  /\ objects = <<>>
  /\ files = <<>>
  /\ cache = <<>>

\* GameSession.apply_action(action_id)
SessionApplyAction ==
  \E action_id \in SessionIds :
    \E S \in {get_state}, after \in {GameSession_apply_action(session, action_id)} :
        /\ after.ok =>
             /\ \/ after.current_key \in DOMAIN store
                \/ Cardinality(DOMAIN store) < MaxStored
             /\ recorded(outcome_refs, current_key) < MaxWins
        /\ store' = after.store
        /\ current_key' = after.current_key
        /\ outcomes' = after.outcomes
        /\ outcome_refs' = after.outcome_refs
        /\ state' = store'[current_key']
        /\ last' = IF after.ok THEN find_action(S, action_id)
                   ELSE NotFound(action_id)
        /\ deck_out' = (deck_out \/
                          (after.ok /\ draws_from_empty_deck(
                                         S, find_action(S, action_id).action_type)))
        /\ UNCHANGED <<root_key, store_vars>>

\* GameSession.reset()
SessionReset ==
  /\ current_key' = root_key
  /\ state' = store[root_key]
  /\ last' = NoAction
  /\ UNCHANGED <<deck_out, store, outcomes, root_key, outcome_refs, store_vars>>

\* GameSession.goto(key), to a previously computed state
SessionGoto ==
  \E key \in DOMAIN store :
    /\ current_key' = key
    /\ state' = store[key]
    /\ last' = NoAction
    /\ UNCHANGED <<deck_out, store, outcomes, root_key, outcome_refs, store_vars>>

SessionNext == SessionApplyAction \/ SessionReset \/ SessionGoto

SpecSession == SessionInit /\ [][SessionNext]_vars

(***************************************************************************)
(* lib/core/file_store.py.  files.states maps a directory to its game.dot  *)
(* and its two deck files, files.outcomes to its outcome.txt and           *)
(* files.outcome_refs to its outcomes.json.  game.dot holds the graph      *)
(* (networkx writes and reads it through pydot; the graph read back is     *)
(* taken to be the graph written, up to the quotes the getters of          *)
(* lib/core/graph.py strip); a deck file is a regular file of one id per   *)
(* line or a symbolic link to the deck file of another directory.          *)
(* actions.txt and diff.txt are written from the graph and never read by   *)
(* load_state; they are left out.                                          *)
(***************************************************************************)
NoFiles == [states |-> <<>>, outcomes |-> <<>>, outcome_refs |-> <<>>]

\* Path.parent; the parent of a one-part relative path is ".", its own parent
Parent(path) == IF path = <<>> THEN <<>> ELSE SubSeq(path, 1, Len(path) - 1)

NoFile == [kind |-> "none", lines |-> <<>>, target |-> <<>>]

RegularFile(lines) == [kind |-> "file", lines |-> lines, target |-> <<>>]

SymLink(target) == [kind |-> "link", lines |-> <<>>, target |-> target]

\* the graph of a state, what save_dot writes
graph_of(S) == [S EXCEPT !.deck1_ids = <<>>, !.deck2_ids = <<>>]

\* state_class(graph, deck1_ids, deck2_ids)
state_class(graph, deck1_ids, deck2_ids) ==
  [graph EXCEPT !.deck1_ids = deck1_ids, !.deck2_ids = deck2_ids]

deck_file(dirs, dir, player) ==
  IF dir \notin DOMAIN dirs THEN NoFile
  ELSE IF player = 1 THEN dirs[dir].deck1 ELSE dirs[dir].deck2

\* the directory whose regular deck file a deck path leads to
RECURSIVE resolve(_, _, _)
resolve(dirs, dir, player) ==
  IF deck_file(dirs, dir, player).kind = "link"
  THEN resolve(dirs, deck_file(dirs, dir, player).target, player)
  ELSE dir

\* FileStore.state_exists: game.dot exists
state_exists(dirs, path) == path \in DOMAIN dirs

\* FileStore._load_deck: [] without a file, else its non-blank lines
load_deck(dirs, base_path, player) ==
  deck_file(dirs, resolve(dirs, base_path, player), player).lines

set_deck_file(dirs, dir, player, file) ==
  IF player = 1 THEN [dirs EXCEPT ![dir].deck1 = file]
  ELSE [dirs EXCEPT ![dir].deck2 = file]

\* a variant that links to the parent's deck file whenever there is one
save_deck_linking(dirs, ids, base_path, player) ==
  LET parent == Parent(base_path)
  IN  IF deck_file(dirs, resolve(dirs, parent, player), player).kind = "file"
      THEN set_deck_file(dirs, base_path, player,
                         SymLink(resolve(dirs, parent, player)))
      ELSE set_deck_file(dirs, base_path, player, RegularFile(ids))

\* FileStore._save_deck: a link to the parent's deck file when that holds
\* the same ids, else open(path, 'w'), which writes through a link that is
\* already there
save_deck(dirs, ids, base_path, player) ==
  LET parent == Parent(base_path)
      parent_exists ==
        deck_file(dirs, resolve(dirs, parent, player), player).kind = "file"
      target == resolve(dirs, base_path, player)
  IN  IF parent_exists /\ load_deck(dirs, parent, player) = ids
      THEN set_deck_file(dirs, base_path, player,
                         SymLink(resolve(dirs, parent, player)))
      ELSE set_deck_file(dirs, target, player, RegularFile(ids))

\* the files FileStore.save_state writes: game.dot, then the two deck files
FileStore_save_state(dirs, S, path) ==
  LET old1 == deck_file(dirs, path, 1)
      old2 == deck_file(dirs, path, 2)
      dirs1 == [d \in DOMAIN dirs \cup {path} |->
                  IF d = path
                  THEN [game |-> graph_of(S), deck1 |-> old1, deck2 |-> old2]
                  ELSE dirs[d]]
  IN  save_deck(save_deck(dirs1, S.deck1_ids, path, 1), S.deck2_ids, path, 2)

\* FileStore.load_state without a cache entry: game.dot and the deck files
FileStore_load_state(dirs, path) ==
  state_class(dirs[path].game, load_deck(dirs, path, 1), load_deck(dirs, path, 2))

\* a cache entry is the caller's object (alias: its slot) or an object of
\* the cache's own (alias 0)
Aliased(slot) == [alias |-> slot, value |-> <<>>]

Private(S) == [alias |-> 0, value |-> S]

cached(c, objs, path) ==
  IF c[path].alias = 0 THEN c[path].value ELSE objs[c[path].alias]

\* the caller binds a slot to another object: the cache keeps the old one
detach(c, objs, slot) ==
  [p \in DOMAIN c |-> IF c[p].alias = slot THEN Private(objs[slot]) ELSE c[p]]

(***************************************************************************)
(* lib/lorcana/execute.py: apply_action_at_path, on a FileStore of its     *)
(* own.  The metadata it collects from the action edge is empty, since     *)
(* _add_can_edge stores action_type, action_id and description only.       *)
(***************************************************************************)
\* a variant that does not materialise a missing parent
apply_action_at_path_flat(fsys, path) ==
  IF state_exists(fsys.states, path) THEN fsys
  ELSE [fsys EXCEPT !.raised = TRUE]

\* the call once the parent was seen to: load the parent, apply the edge
\* that carries path.name, save the state, the outcome and its aggregates
materialise(fs1, path) ==
  LET parent_path == Parent(path)
      action_id == path[Len(path)]
  IN  IF fs1.raised \/ ~state_exists(fs1.states, parent_path)
      THEN [fs1 EXCEPT !.raised = TRUE]
      ELSE
        LET parent == FileStore_load_state(fs1.states, parent_path)
        IN  IF ~has_action(parent, action_id)
            THEN [fs1 EXCEPT !.raised = TRUE]
            ELSE
              LET e == find_action(parent, action_id)
                  T == execute_action(parent, e.action_type, e.src, e.dst,
                                      NoMetadata)
                  seed_path == find_seed_path(path)
              IN  [raised |-> FALSE,
                   states |-> FileStore_save_state(fs1.states, T, path),
                   outcomes |->
                     IF T.game_over = 1
                     THEN save_outcome(fs1.outcomes, path, outcome_data(T))
                     ELSE fs1.outcomes,
                   outcome_refs |->
                     IF T.game_over = 1 /\ seed_path /= NoSeedPath
                     THEN backpropagate(path, seed_path, <<>>,
                                        fs1.outcome_refs, outcome_data(T))
                     ELSE fs1.outcome_refs]

RECURSIVE apply_action_at_path(_, _)
apply_action_at_path(fsys, path) ==
  IF state_exists(fsys.states, path) THEN fsys
  ELSE IF Parent(path) /= path /\ ~state_exists(fsys.states, Parent(path))
       THEN CHOOSE after \in
              { materialise(fs1, path) :
                  fs1 \in {apply_action_at_path(fsys, Parent(path))} } : TRUE
       ELSE materialise(fsys, path)

(***************************************************************************)
(* The two stores under a caller that holds state objects in two slots,    *)
(* saves them, loads into them and mutates them in place.                  *)
(***************************************************************************)
Slots == {1, 2}

StorePaths == { << <<"xzp8iq8p">> >>, << <<"xzp8iq8p">>, <<"0">> >> }

StoreOp(name, path, slot) ==
  [NoAction EXCEPT !.action_type = name, !.src = path, !.dst = <<slot>>]

\* the slots load_state is assigned to
LoadSlots == {2}

\* the states the caller starts with: a state it built, one action short
\* of the end of the game, and a state with another deck and no action
BuiltState == InitialState(3, 17, 0, {}, CHOOSE a \in SessionAttackers : TRUE, NoCard)

OtherState == InitialState(3, 17, 0, {"stitch_new_dog"}, NoCard, NoCard)

StoreInit ==
  /\ objects = <<BuiltState, OtherState>>
  /\ state = BuiltState
  /\ files = NoFiles
  /\ cache = <<>>
  /\ store = <<>>
  /\ current_key = <<>>
  /\ root_key = <<>>
  /\ outcomes = <<>>
  /\ outcome_refs = <<>>
  /\ last = NoAction
  /\ deck_out = FALSE

\* store.save_state(objects[slot], path) on the MemoryStore and on the
\* FileStore
SaveState ==
  \E slot \in Slots, path \in StorePaths :
    /\ store' = save_state(store, objects[slot], path)
    /\ files' = [files EXCEPT
                   !.states = FileStore_save_state(@, objects[slot], path)]
    /\ cache' = [p \in DOMAIN cache \cup {path} |->
                   IF p = path THEN Aliased(slot) ELSE cache[p]]
    /\ last' = StoreOp("save_state", path, slot)
    /\ UNCHANGED <<objects, state, deck_out, current_key, root_key, outcomes,
                   outcome_refs>>

\* objects[slot] = MemoryStore.load_state(path)
MemoryLoadState ==
  \E slot \in LoadSlots, path \in DOMAIN store :
    /\ objects' = [objects EXCEPT ![slot] = store[path]]
    /\ cache' = detach(cache, objects, slot)
    /\ last' = StoreOp("memory_load_state", <<>>, slot)
    /\ UNCHANGED <<files, store, state, deck_out, current_key, root_key,
                   outcomes, outcome_refs>>

\* objects[slot] = FileStore.load_state(path): a deep copy of the cache
\* entry, else the state read from the files, a deep copy of which is cached
FileLoadState ==
  \E slot \in LoadSlots, path \in StorePaths :
    /\ path \in DOMAIN cache \/ state_exists(files.states, path)
    /\ IF path \in DOMAIN cache
       THEN /\ objects' = [objects EXCEPT ![slot] = cached(cache, objects, path)]
            /\ cache' = detach(cache, objects, slot)
       ELSE LET S == FileStore_load_state(files.states, path)
                c == detach(cache, objects, slot)
            IN  /\ objects' = [objects EXCEPT ![slot] = S]
                /\ cache' = [p \in DOMAIN c \cup {path} |->
                               IF p = path THEN Private(S) ELSE c[p]]
    /\ last' = StoreOp("file_load_state", <<>>, slot)
    /\ UNCHANGED <<files, store, state, deck_out, current_key, root_key,
                   outcomes, outcome_refs>>

\* FileStore(): another instance over the same directories, its cache empty
NewFileStore ==
  /\ cache /= <<>>
  /\ cache' = <<>>
  /\ last' = StoreOp("new_file_store", <<>>, 0)
  /\ UNCHANGED <<objects, files, store, state, deck_out, current_key, root_key,
                 outcomes, outcome_refs>>

\* the caller mutates objects[slot] in place: execute_action on an action
\* edge of it
Mutate ==
  \E slot \in Slots :
    \E i \in 1..Len(can_edges(objects[slot])) :
      /\ objects' = [objects EXCEPT ![slot] =
                       apply_action(@, can_edges(@)[i].action_id)]
      /\ last' = StoreOp("mutate", <<>>, slot)
      /\ UNCHANGED <<files, cache, store, state, deck_out, current_key,
                     root_key, outcomes, outcome_refs>>

StoreNext ==
  SaveState \/ MemoryLoadState \/ FileLoadState \/ NewFileStore \/ Mutate

SpecStore == StoreInit /\ [][StoreNext]_vars

(***************************************************************************)
(* A session explores below a seed directory in memory; apply_action_at_   *)
(* path is then called on paths of the exploration, the directory tree     *)
(* holding the seed state at the start.                                    *)
(***************************************************************************)
SeedKey == << <<"xzp8iq8p">> >>

ReplayHands == {{}, {"cri_kee_good_luck_charm"}}

ReplayInit ==
  /\ \E h \in ReplayHands, a \in SessionAttackers, d \in SessionDefenders :
       state = InitialState(3, 17, 3, h, a, d)
  /\ root_key = SeedKey
  /\ store = save_state(<<>>, state, root_key)
  /\ current_key = root_key
  /\ outcomes = <<>>
  /\ outcome_refs = <<>>
  /\ last = NoAction
  /\ deck_out = FALSE
  /\ objects = <<>>
  /\ cache = <<>>
  /\ files = [NoFiles EXCEPT !.states = FileStore_save_state(<<>>, state, root_key)]

\* apply_action_at_path(path), path a key of the exploration or a child of
\* the current key by an id that may name no action
ApplyActionAtPath ==
  \E path \in DOMAIN store \cup {Append(current_key, id) : id \in SessionIds} :
    \E after \in {apply_action_at_path(
                     [raised |-> FALSE, states |-> files.states,
                      outcomes |-> files.outcomes,
                      outcome_refs |-> files.outcome_refs], path)} :
        /\ files' = [states |-> after.states, outcomes |-> after.outcomes,
                     outcome_refs |-> after.outcome_refs]
        /\ last' = [NoAction EXCEPT
                      !.action_type = "apply_action_at_path",
                      !.description =
                        <<"apply_action_at_path", path, after.raised,
                          Cardinality(DOMAIN after.states \ DOMAIN files.states)>>]
        /\ UNCHANGED <<state, deck_out, store, current_key, outcomes, root_key,
                       outcome_refs, objects, cache>>

\* the exploration, while the directory tree holds only the seed state
ReplayExplore ==
  /\ DOMAIN files.states = {SeedKey}
  /\ (SessionApplyAction \/ SessionGoto)

ReplayNext == ReplayExplore \/ ApplyActionAtPath

SpecReplay == ReplayInit /\ [][ReplayNext]_vars

(***************************************************************************)
(* lib/lorcana/mechanics/turn.py: the steps of the beginning phase, called *)
(* on a state the way tests/lorcana/test_turn.py calls them.               *)
(***************************************************************************)
MaxDeck == 2

TurnNumbers == {1, 2}

\* a state of test_turn.py: a turn number, ink for both players that p1 has
\* spent or not, a character in play for each player, and decks of up to
\* MaxDeck cards
TurnState(turn, ink, spent, attacker, defender, n1, n2) ==
  LET S0 == give_ink(give_ink(set_turn(make_game, turn), "p1", ink), "p2", ink)
      S1 == IF spent
            THEN [S0 EXCEPT !.ink_available["p1"] = 0, !.ink_drops["p1"] = 0]
            ELSE S0
      S2 == add_in_play(add_in_play(S1, "p1", attacker), "p2", defender)
  IN  make_state(S2, SubSeq(deck_ids(S2, "p1"), 1, n1),
                 SubSeq(deck_ids(S2, "p2"), 1, n2))

TurnCards ==
  { NoCard, [label |-> "stitch_rock_star", exerted |-> 1, damage |-> 0, drying |-> FALSE] }

StepOp(name, player) ==
  [NoAction EXCEPT !.action_type = name, !.src = PlayerNode(player)]

TurnInit ==
  /\ \E turn \in TurnNumbers, ink \in InitInks, spent \in BOOLEAN,
        a \in TurnCards, d \in TurnCards, n1 \in 0..MaxDeck, n2 \in 0..MaxDeck :
       state = TurnState(turn, ink, spent, a, d, n1, n2)
  /\ last = NoAction
  /\ deck_out = FALSE
  /\ store = <<>>
  /\ current_key = <<>>
  /\ outcomes = <<>>
  /\ root_key = <<>>
  /\ outcome_refs = <<>>
  /\ objects = <<>>
  /\ files = <<>>
  /\ cache = <<>>

\* _ready_step(state, player)
ReadyStep ==
  \E player \in Players :
    /\ state' = ready_step(state, player)
    /\ last' = StepOp("ready_step", player)
    /\ UNCHANGED <<deck_out, store, current_key, outcomes, root_key,
                   outcome_refs, store_vars>>

\* _set_step(state, player)
SetStep ==
  \E player \in Players :
    /\ state' = set_step(state, player)
    /\ last' = StepOp("set_step", player)
    /\ UNCHANGED <<deck_out, store, current_key, outcomes, root_key,
                   outcome_refs, store_vars>>

\* _draw_step(state, player)
DrawStep ==
  \E player \in Players :
    /\ state' = draw_step(state, player)
    /\ last' = StepOp("draw_step", player)
    /\ deck_out' = (deck_out \/ (~(player = "p1" /\ state.turn = 1)
                                  /\ Len(deck_of(state, player)) = 0))
    /\ UNCHANGED <<store, current_key, outcomes, root_key, outcome_refs,
                   store_vars>>

TurnNext == ReadyStep \/ SetStep \/ DrawStep

SpecTurn == TurnInit /\ [][TurnNext]_vars

(***************************************************************************)
(* The mechanics on boards built the way tests/lorcana build them: a      *)
(* character a of p1 and a character d of p2 in play in any condition, a   *)
(* second, exerted character b of p1, cards in both hands, ink, and        *)
(* optionally the cant_quest edge the quest mechanic looks for.  The       *)
(* enumerated actions are executed and _set_step is called directly.       *)
(***************************************************************************)
BoardDefenderLabels ==
  { "cri_kee_good_luck_charm", "peter_pan_never_landing",
    "simba_protective_cub", "stitch_new_dog" }

\* p1's character: ready or exerted, dry or drying, damaged when it is
\* ready and dry
BoardAttackers ==
  { c \in InPlayChoices(CharacterLabels, {0, 1}, 0..MaxInitDamage, {FALSE, TRUE}) :
      c.damage > 0 => (c.exerted = 0 /\ ~c.drying) }

BoardDefenders ==
  InPlayChoices(BoardDefenderLabels, {0, 1}, 0..MaxInitDamage, {FALSE})

\* p1's second character
BoardSeconds ==
  { NoCard,
    [label |-> "stitch_rock_star", exerted |-> 1, damage |-> 0, drying |-> FALSE] }

BoardHands ==
  { {}, {"stitch_new_dog"}, {"cri_kee_good_luck_charm", "rafiki_mysterious_sage"},
    {"cri_kee_good_luck_charm", "rafiki_mysterious_sage", "stitch_new_dog"} }

\* hands and ink of the play tests: an action card, a Bodyguard character
\* and a dear character, with ink for none, some or all of them
PlayHands ==
  { {"dragon_fire"}, {"dragon_fire", "simba_protective_cub"},
    {"simba_protective_cub", "stitch_rock_star"},
    {"dragon_fire", "simba_protective_cub", "stitch_rock_star"} }

PlayInks == {1, 2, 5, 7}

\* G.add_edge(ability, card, label=Edge.CANT_QUEST) from a new ability node
add_cant_quest(S, card_node) ==
  LET ability_id == <<Keyword_RECKLESS, S.cards[card_node].entered_play,
                      next_ability_seq(S, Keyword_RECKLESS,
                                       S.cards[card_node].entered_play)>>
  IN  [S EXCEPT
         !.abilities = @ \cup {ability_id},
         !.edges = Append(@, [src |-> ability_id, dst |-> card_node,
                              label |-> Edge_CANT_QUEST])]

Board(ink, drops, hand, a, b, d, cant) ==
  LET S0 == give_ink(set_turn(make_game, 3), "p1", ink)
      S1 == [S0 EXCEPT !.lore = [p1 |-> 17, p2 |-> 5], !.ink_drops["p1"] = drops]
      S2 == add_hand(add_hand(S1, "p1", SelectSeq(CardLabels, LAMBDA l : l \in hand)),
                     "p2", <<"rafiki_mysterious_sage">>)
      S3 == add_in_play(add_in_play(add_in_play(S2, "p1", a), "p1", b), "p2", d)
      S4 == IF cant THEN add_cant_quest(S3, CardNode("p1", a.label)) ELSE S3
  IN  compute_all(make_state(S4, <<>>, <<>>))

\* the boards of the challenge and quest tests, those of the ink tests and
\* those of the play tests
IsBoard(S) ==
  \/ \E a \in BoardAttackers, b \in BoardSeconds, d \in BoardDefenders,
        cant \in BOOLEAN :
       /\ b /= NoCard => a.label /= b.label
       /\ cant => a.label \in {"gaston_arrogant_hunter", "stitch_new_dog"}
       /\ S = Board(0, 1, {}, a, b, d, cant)
  \/ \E ink \in InitInks, drops \in {0, 1}, hand \in BoardHands :
       \E a \in {c \in BoardAttackers :
                   c.label = "gaston_arrogant_hunter" /\ c.damage = 0} :
         S = Board(ink, drops, hand, a, NoCard, NoCard, FALSE)
  \/ \E ink \in PlayInks, hand \in PlayHands :
       \E a \in {c \in BoardAttackers : c.label = "rafiki_mysterious_sage"
                                        /\ c.damage = 0 /\ ~c.drying} :
         S = Board(ink, 1, hand, a, NoCard, NoCard, FALSE)

BoardInit ==
  /\ IsBoard(state)
  /\ last = NoAction
  /\ deck_out = FALSE
  /\ store = <<>>
  /\ current_key = <<>>
  /\ outcomes = <<>>
  /\ root_key = <<>>
  /\ outcome_refs = <<>>
  /\ objects = <<>>
  /\ files = <<>>
  /\ cache = <<>>

\* compute_all(G) called on the graph as it stands, as the tests and
\* apply_action do after a step has changed the graph
ComputeAll ==
  /\ state' = compute_all(state)
  /\ last' = [NoAction EXCEPT !.action_type = "compute_all"]
  /\ UNCHANGED <<deck_out, store, current_key, outcomes, root_key,
                 outcome_refs, store_vars>>

BoardNext == ApplyAction \/ SetStep \/ ComputeAll

SpecBoard == BoardInit /\ [][BoardNext]_vars

(***************************************************************************)
(* Cards from deck to discard: a game after setup, with the rest of each   *)
(* player's shuffled deck, where the enumerated actions are executed and   *)
(* _draw_step is called directly and followed by compute_all, as           *)
(* advance_turn and apply_action would do for a pass.                      *)
(***************************************************************************)
CardsAttackers ==
  InPlayChoices({"gaston_arrogant_hunter", "rafiki_mysterious_sage"},
                {0}, 0..MaxInitDamage, {FALSE})

CardsDefenders ==
  InPlayChoices({"peter_pan_never_landing", "stitch_new_dog"},
                {1}, 0..MaxInitDamage, {FALSE})

\* the first n ids of the deck, in decklist order or in the opposite order
shuffled(ids, n, backwards) ==
  IF backwards THEN [i \in 1..n |-> ids[Len(ids) + 1 - i]]
  ELSE SubSeq(ids, 1, n)

CardsState(turn, ink, a, d, n1, n2, backwards) ==
  LET S0 == give_ink(set_turn(make_game, turn), "p1", ink)
      S1 == add_in_play(add_in_play(S0, "p1", a), "p2", d)
  IN  compute_all(make_state(S1, shuffled(deck_ids(S1, "p1"), n1, backwards),
                             shuffled(deck_ids(S1, "p2"), n2, backwards)))

CardsInit ==
  /\ \E ink \in InitInks, a \in CardsAttackers,
        d \in CardsDefenders, n1 \in 0..MaxDeck, n2 \in 0..MaxDeck,
        backwards \in BOOLEAN :
       state = CardsState(3, ink, a, d, n1, n2, backwards)
  /\ last = NoAction
  /\ deck_out = FALSE
  /\ store = <<>>
  /\ current_key = <<>>
  /\ outcomes = <<>>
  /\ root_key = <<>>
  /\ outcome_refs = <<>>
  /\ objects = <<>>
  /\ files = <<>>
  /\ cache = <<>>

\* _draw_step(state, player); compute_all(state.graph)
DrawCard ==
  \E player \in Players :
    /\ state.game_over = 0
    /\ state' = compute_all(draw_step(state, player))
    /\ last' = StepOp("draw_step", player)
    /\ deck_out' = (deck_out \/ Len(deck_of(state, player)) = 0)
    /\ UNCHANGED <<store, current_key, outcomes, root_key, outcome_refs,
                   store_vars>>

CardsNext == ApplyAction \/ DrawCard

SpecCards == CardsInit /\ [][CardsNext]_vars

(***************************************************************************)
(* GameSession.play_until_game_over (game_api.py:155-196).  random.choice  *)
(* is a choice among the actions it is given, so a rollout has a set of    *)
(* possible results.                                                       *)
(***************************************************************************)
MaxActions == 3

is_game_over(sess) == sess.store[sess.current_key].game_over = 1

\* get_actions(), filtered as play_random_action does: the ids to choose from
random_choices(sess, prefer_non_end) ==
  LET actions == can_edges(sess.store[sess.current_key])
      non_end == SelectSeq(actions, LAMBDA a : a.description /= <<"end">>)
      chosen == IF prefer_non_end /\ non_end /= <<>> THEN non_end ELSE actions
  IN  { chosen[i].action_id : i \in 1..Len(chosen) }

\* a variant that ignores the bound
RECURSIVE play_until_game_over_unbounded(_, _, _)
play_until_game_over_unbounded(sess, prefer_non_end, max_actions) ==
  IF is_game_over(sess) THEN {sess}
  ELSE IF random_choices(sess, prefer_non_end) = {}
       THEN {[sess EXCEPT !.ok = FALSE]}
       ELSE UNION { play_until_game_over_unbounded(
                      GameSession_apply_action(sess, id), prefer_non_end,
                      max_actions)
                    : id \in random_choices(sess, prefer_non_end) }

\* the sessions a call can return with: the loop runs max_actions times at
\* most and leaves when the game is over or play_random_action played nothing
RECURSIVE play_until_game_over(_, _, _)
play_until_game_over(sess, prefer_non_end, max_actions) ==
  IF max_actions = 0 THEN {sess}
  ELSE IF is_game_over(sess) THEN {sess}
  ELSE IF random_choices(sess, prefer_non_end) = {}
       THEN {[sess EXCEPT !.ok = FALSE]}
       ELSE UNION { play_until_game_over(
                      GameSession_apply_action(sess, id), prefer_non_end,
                      max_actions - 1)
                    : id \in random_choices(sess, prefer_non_end) }

\* get_path(): the current key without the root key
get_path(sess, root) ==
  SubSeq(sess.current_key, Len(root) + 1, Len(sess.current_key))

RolloutHands ==
  SessionHands \cup { {"cri_kee_good_luck_charm", "simba_protective_cub"},
                      {"cri_kee_good_luck_charm", "rafiki_mysterious_sage"} }

RolloutInit ==
  /\ \E ink \in InitInks, h \in RolloutHands,
        a \in SessionAttackers \cup {NoCard}, d \in SessionDefenders :
       state = InitialState(3, 17, ink, h, a, d)
  /\ root_key \in RootKeys \ { << <<"xzp8iq8p">> >> }
  /\ store = save_state(<<>>, state, root_key)
  /\ current_key = root_key
  /\ outcomes = <<>>
  /\ outcome_refs = <<>>
  /\ last = NoAction
  /\ deck_out = FALSE
  /\ objects = <<>>
  /\ files = <<>>
  /\ cache = <<>>

\* session.play_until_game_over(prefer_non_end, max_actions); the history
\* records the bound, the path the session stood at and the path returned
PlayUntilGameOver ==
  \E max_actions \in 0..MaxActions, prefer_non_end \in BOOLEAN :
    \E after \in play_until_game_over(session, prefer_non_end, max_actions) :
      /\ Cardinality(DOMAIN after.store) <= MaxActions + 2
      /\ store' = after.store
      /\ current_key' = after.current_key
      /\ outcomes' = after.outcomes
      /\ outcome_refs' = after.outcome_refs
      /\ state' = store'[current_key']
      /\ last' = [NoAction EXCEPT
                    !.action_type = "play_until_game_over",
                    !.description = <<"play_until_game_over", max_actions,
                                      get_path(session, root_key),
                                      get_path(after, root_key)>>]
      /\ UNCHANGED <<deck_out, root_key, store_vars>>

RolloutNext == PlayUntilGameOver

SpecRollout == RolloutInit /\ [][RolloutNext]_vars

(***************************************************************************)
(* lib/core/seed.py and lib/lorcana/setup.py: seeding a matchup.  A seed   *)
(* is the sequence of its parts between the dots, a part the sequence of   *)
(* its characters.  A decklist file is the sequence of its "N Name" lines, *)
(* each the count and the name the regular expression captures.  The two   *)
(* decklists of the matchup directory are files.deck1_txt and              *)
(* files.deck2_txt.  Random(seed).shuffle is any permutation.              *)
(***************************************************************************)
HandSize == 7

MatchDir == << <<"output">>, <<"b013">> >>

\* name.lower().replace(' - ', '_').replace(' ', '_').replace('-', '_')
normalize_card_name(name) ==
  CASE name = "Cri-Kee - Good Luck Charm" -> "cri_kee_good_luck_charm"
    [] name = "Dragon Fire" -> "dragon_fire"
    [] name = "Gaston - Arrogant Hunter" -> "gaston_arrogant_hunter"
    [] name = "Peter Pan - Never Landing" -> "peter_pan_never_landing"
    [] name = "Rafiki - Mysterious Sage" -> "rafiki_mysterious_sage"
    [] name = "Simba - Protective Cub" -> "simba_protective_cub"
    [] name = "Stitch - New Dog" -> "stitch_new_dog"
    [] name = "Stitch - Rock Star" -> "stitch_rock_star"

\* Python's None where an index is expected
NoIndex == -1

\* Python's None where parse_seed's dict is expected
NoHandSpec == [none |-> TRUE, p1_hand |-> <<>>, p2_hand |-> <<>>]

\* char_to_index: 0-9 are 0-9, a-z are 10-35, anything else is None
char_to_index(c) ==
  IF \E i \in 1..Len(BASE36_CHARS) : BASE36_CHARS[i] = c
  THEN (CHOOSE i \in 1..Len(BASE36_CHARS) : BASE36_CHARS[i] = c) - 1
  ELSE NoIndex

\* parse_seed: the two lists of hand indices, or None
parse_seed(seed) ==
  IF Len(seed) /= 3 THEN NoHandSpec
  ELSE IF \/ Len(seed[1]) /= HandSize
          \/ Len(seed[2]) /= HandSize
          \/ Len(seed[3]) /= 2
       THEN NoHandSpec
       ELSE LET p1_hand == [i \in 1..HandSize |-> char_to_index(seed[1][i])]
                p2_hand == [i \in 1..HandSize |-> char_to_index(seed[2][i])]
            IN  IF \/ \E i \in 1..HandSize : p1_hand[i] = NoIndex
                   \/ \E i \in 1..HandSize : p2_hand[i] = NoIndex
                THEN NoHandSpec
                ELSE [none |-> FALSE, p1_hand |-> p1_hand, p2_hand |-> p2_hand]

\* card_map: the ids of each name, a later line of the same name replacing
\* an earlier one
card_map(cards) ==
  [name \in {cards[i].name : i \in 1..Len(cards)} |->
     LET line == cards[CHOOSE i \in 1..Len(cards) :
                         /\ cards[i].name = name
                         /\ \A j \in (i + 1)..Len(cards) : cards[j].name /= name]
     IN  [k \in 1..line.count |->
            <<normalize_card_name(name), CopySuffixes[k]>>]]

\* the keys of card_map in the order a dict keeps them: by first insertion
card_map_keys(cards) ==
  LET first == SelectSeq([i \in 1..Len(cards) |-> i],
                         LAMBDA i : \A j \in 1..(i - 1) : cards[j].name /= cards[i].name)
  IN  [k \in 1..Len(first) |-> cards[first[k]].name]

\* [card_id for ids in card_map.values() for card_id in ids]
RECURSIVE all_ids(_, _)
all_ids(map, keys) ==
  IF keys = <<>> THEN <<>> ELSE map[Head(keys)] \o all_ids(map, Tail(keys))

\* the orders rng.shuffle can leave a list in
shuffles(ids) ==
  {[i \in 1..Len(ids) |-> ids[p[i]]] : p \in Permutations(1..Len(ids))}

\* a variant that takes the last id left of a name, pop() for pop(0)
RECURSIVE take_hand_last_copy(_, _, _, _)
take_hand_last_copy(unique_cards, map, hand_indices, hand_cards) ==
  IF hand_indices = <<>>
  THEN [raised |-> "", hand_cards |-> hand_cards, card_map |-> map]
  ELSE LET idx == Head(hand_indices)
       IN  IF idx >= Len(unique_cards)
           THEN [raised |-> "Hand index out of range",
                 hand_cards |-> hand_cards, card_map |-> map]
           ELSE LET card_name == unique_cards[idx + 1]
                    ids == map[card_name]
                IN  IF ids = <<>>
                    THEN [raised |-> "Not enough copies",
                          hand_cards |-> hand_cards, card_map |-> map]
                    ELSE take_hand_last_copy(
                           unique_cards,
                           [map EXCEPT ![card_name] = SubSeq(ids, 1, Len(ids) - 1)],
                           Tail(hand_indices),
                           Append(hand_cards, ids[Len(ids)]))

\* the loop over hand_indices: each takes the first id left of its name
RECURSIVE take_hand(_, _, _, _)
take_hand(unique_cards, map, hand_indices, hand_cards) ==
  IF hand_indices = <<>>
  THEN [raised |-> "", hand_cards |-> hand_cards, card_map |-> map]
  ELSE LET idx == Head(hand_indices)
       IN  IF idx >= Len(unique_cards)
           THEN [raised |-> "Hand index out of range",
                 hand_cards |-> hand_cards, card_map |-> map]
           ELSE LET card_name == unique_cards[idx + 1]
                IN  IF map[card_name] = <<>>
                    THEN [raised |-> "Not enough copies",
                          hand_cards |-> hand_cards, card_map |-> map]
                    ELSE take_hand(unique_cards,
                                   [map EXCEPT ![card_name] = Tail(@)],
                                   Tail(hand_indices),
                                   Append(hand_cards, Head(map[card_name])))

\* build_shuffled_deck with hand_indices: the decks it can return, or the
\* error it raises
build_shuffled_deck(cards, hand_indices) ==
  LET unique_cards == [i \in 1..Len(cards) |-> cards[i].name]
      taken == take_hand(unique_cards, card_map(cards), hand_indices, <<>>)
  IN  IF taken.raised /= "" THEN {[raised |-> taken.raised, deck |-> <<>>]}
      ELSE {[raised |-> "", deck |-> taken.hand_cards \o remaining] :
              remaining \in shuffles(all_ids(taken.card_map, card_map_keys(cards)))}

\* shuffle_and_draw with a seed that holds a dot: the directory trees it can
\* leave, with the error it raised and the decks it built
shuffle_and_draw(dirs, deck1_txt, deck2_txt, matchdir, seed) ==
  LET parent == FileStore_load_state(dirs, matchdir)
      hand_spec == parse_seed(seed)
  IN  IF hand_spec.none
      THEN {[raised |-> "Invalid hand-spec seed format", states |-> dirs,
             deck1_ids |-> <<>>, deck2_ids |-> <<>>]}
      ELSE UNION {
             IF deck1.raised /= ""
             THEN {[raised |-> deck1.raised, states |-> dirs,
                    deck1_ids |-> <<>>, deck2_ids |-> <<>>]}
             ELSE {IF deck2.raised /= ""
                   THEN [raised |-> deck2.raised, states |-> dirs,
                         deck1_ids |-> deck1.deck, deck2_ids |-> <<>>]
                   ELSE [raised |-> "",
                         deck1_ids |-> deck1.deck, deck2_ids |-> deck2.deck,
                         states |->
                           FileStore_save_state(
                             dirs,
                             compute_all(
                               draw(draw(state_class(graph_of(parent),
                                                     deck1.deck, deck2.deck),
                                         "p1", HandSize),
                                    "p2", HandSize)),
                             Append(matchdir, seed))] :
                   deck2 \in build_shuffled_deck(deck2_txt, hand_spec.p2_hand)} :
             deck1 \in build_shuffled_deck(deck1_txt, hand_spec.p1_hand)}

Line(count, name) == [count |-> count, name |-> name]

Decklists ==
  { << Line(4, "Stitch - Rock Star"), Line(4, "Simba - Protective Cub"),
       Line(1, "Dragon Fire") >>,
    << Line(3, "Cri-Kee - Good Luck Charm"), Line(4, "Gaston - Arrogant Hunter"),
       Line(2, "Rafiki - Mysterious Sage") >>,
    << Line(4, "Peter Pan - Never Landing"), Line(4, "Stitch - New Dog") >> }

\* hand specs of the first two names, and those with one other character
P1Specs ==
  [1..HandSize -> {"0", "1"}]
  \cup {[s EXCEPT ![k] = c] :
          s \in {<<"0", "0", "0", "1", "1", "1", "0">>,
                 <<"1", "0", "1", "0", "1", "0", "1">>},
          k \in 1..HandSize, c \in {"2", "z", "A"}}

P2Specs ==
  { <<"0", "0", "1", "1", "0", "1", "0">>, <<"1", "1", "1", "0", "0", "0", "1">>,
    <<"0", "0", "0", "0", "0", "1", "1">>, <<"0", "1", "2", "0", "1", "0", "1">> }

Seeds ==
  {<<p1, p2, <<"a", "b">> >> : p1 \in P1Specs, p2 \in P2Specs}
  \cup { << <<"0", "0", "0", "1", "1", "1", "0">>,
            <<"0", "0", "1", "1", "0", "1", "0">> >>,
         << <<"0", "0", "0", "1", "1", "1">>,
            <<"0", "0", "1", "1", "0", "1", "0">>, <<"a", "b">> >>,
         << <<"0", "0", "0", "1", "1", "1", "0">>,
            <<"0", "0", "1", "1", "0", "1", "0">>, <<"a">> >>,
         << <<"0", "0", "0", "1", "1", "1", "0">>, <<>>,
            <<"0", "0", "1", "1", "0", "1", "0">>, <<"a", "b">> >> }

\* init_game: the decklists copied to the matchup directory and the
\* template, with its legal actions computed, saved there
SetupInit ==
  /\ \E deck1_txt \in Decklists, deck2_txt \in Decklists :
       files = [states |-> FileStore_save_state(<<>>, compute_all(make_game), MatchDir),
                outcomes |-> <<>>, outcome_refs |-> <<>>,
                deck1_txt |-> deck1_txt, deck2_txt |-> deck2_txt]
  /\ state = compute_all(make_game)
  /\ last = NoAction
  /\ deck_out = FALSE
  /\ objects = <<>>
  /\ cache = <<>>
  /\ store = <<>>
  /\ current_key = <<>>
  /\ outcomes = <<>>
  /\ root_key = MatchDir
  /\ outcome_refs = <<>>

\* rules-engine.py shuffle: a seed of the matchup is set up; a behaviour
\* follows one call
ShuffleAndDraw ==
  /\ last = NoAction
  /\ \E seed \in Seeds :
       \E after \in shuffle_and_draw(files.states, files.deck1_txt,
                                     files.deck2_txt, MatchDir, seed) :
         /\ files' = [files EXCEPT !.states = after.states]
         /\ state' = IF after.raised = ""
                     THEN FileStore_load_state(after.states, Append(MatchDir, seed))
                     ELSE state
         /\ last' = [NoAction EXCEPT !.action_type = "shuffle_and_draw",
                                     !.action_id = seed,
                                     !.description =
                                       <<after.raised, after.deck1_ids,
                                         after.deck2_ids>>]
  /\ UNCHANGED <<deck_out, objects, cache, store, current_key, outcomes,
                 root_key, outcome_refs>>

SetupNext == ShuffleAndDraw

SpecSetup == SetupInit /\ [][SetupNext]_vars

(***************************************************************************)
(* A game played to its end: every step applies one of the action edges    *)
(* of the current state, and an action is applied as long as there is one  *)
(* (bin/play-random.py and GameSession.play_until_game_over keep choosing  *)
(* among the actions offered).                                             *)
(***************************************************************************)
GameNext == ApplyAction

SpecGame == Init /\ [][GameNext]_vars /\ WF_vars(ApplyAction)

(***************************************************************************)
(* Properties.                                                             *)
(***************************************************************************)
Acted == last /= NoAction

in_play(S) == {n \in DOMAIN S.cards : S.cards[n].zone = Zone_PLAY}

ability_edges(S) == {i \in 1..Len(S.edges) : S.edges[i].src \in S.abilities}

\* C1: in every state reached by applying enumerated actions there is exactly
\* one current_turn edge and exactly one current_step edge, and the step node
\* the latter points at belongs to the player the former points at.
C1_OneTurnOneStep ==
  /\ Len(edges_by_label(state, Edge_CURRENT_TURN)) = 1
  /\ Len(edges_by_label(state, Edge_CURRENT_STEP)) = 1
  /\ step_player(edges_by_label(state, Edge_CURRENT_STEP)[1].dst)
       = edges_by_label(state, Edge_CURRENT_TURN)[1].dst[1]

C1_Witness ==
  /\ last.action_type = Action_PASS
  /\ state.cards /= <<>>
  /\ edges_by_label(state, Edge_CURRENT_TURN)[1].dst = PlayerNode("p1")
  /\ edges_by_label(state, Edge_CURRENT_STEP)[1].dst = get_player_step("p1", "main")

\* C2: every edge that leaves an ability node points at a card with
\* zone = play (a card that leaves play takes its ability nodes with it).
C2_AbilityEdgesPointIntoPlay ==
  \A i \in ability_edges(state) : state.edges[i].dst \in in_play(state)

\* the keyword edge label of a printed keyword
keyword_label(printed) ==
  CASE printed = "Rush" -> Keyword_RUSH
    [] printed = "Evasive" -> Keyword_EVASIVE
    [] printed = "Alert" -> Keyword_ALERT
    [] printed = "Bodyguard" -> Keyword_BODYGUARD
    [] printed = "Reckless" -> Keyword_RECKLESS

PrintedKeywords == {"Rush", "Evasive", "Alert", "Bodyguard", "Reckless"}

has_ability_node(S, card_node, keyword) ==
  \E a \in S.abilities :
    /\ \E i \in 1..Len(S.edges) :
         S.edges[i] = [src |-> a, dst |-> card_node, label |-> keyword]
    /\ \E i \in 1..Len(S.edges) :
         S.edges[i] = [src |-> a, dst |-> card_node, label |-> Edge_SOURCE]

\* C3: for every card in play and every keyword K, an ability node with a
\* K edge and a source edge to the card exists iff K is printed on the card.
C3_KeywordEdgesMatchPrinted ==
  \A n \in in_play(state) : \A k \in PrintedKeywords :
    has_ability_node(state, n, keyword_label(k))
      <=> card_data_has_keyword(get_card_data(state, n), k)

\* C4: game_over = 1 iff some player's lore is at least 20 or a draw step
\* was attempted on an empty deck earlier in the run.
C4_GameOverIff ==
  (state.game_over = 1)
    <=> (state.lore["p1"] >= 20 \/ state.lore["p2"] >= 20 \/ deck_out)

C4_Witness ==
  /\ last.action_type = Action_QUEST
  /\ state.game_over = 1
  /\ state.lore["p1"] = 20

\* C5: in a state stored after an action, action edges exist iff
\* game_over = 0.
C5_ActionEdgesIffNotOver ==
  last.action_id /= <<>> =>
    ((can_edges(state) /= <<>>) <=> (state.game_over = 0))

\* C7: for each player 0 <= ink_available <= ink_total and ink_drops is 0 or 1.
C7_InkBounds ==
  \A p \in Players :
    /\ 0 <= state.ink_available[p]
    /\ state.ink_available[p] <= state.ink_total[p]
    /\ state.ink_drops[p] \in {0, 1}

C7_Witness ==
  /\ last.action_type = Action_PLAY
  /\ state.ink_drops["p1"] = 0
  /\ state.ink_available["p1"] = 1
  /\ state.ink_total["p1"] = 4

\* the card nodes an action edge refers to
edge_cards(e) == {e.src, e.dst} \cap CardNodes

\* C8: after every applied action no character in play has damage >=
\* willpower, and no action edge refers to a card in the discard.
C8_NoLethallyDamagedInPlay ==
  Acted =>
    /\ \A n \in in_play(state) :
         get_card_data(state, n).type = CardType_CHARACTER
           => state.cards[n].damage < get_willpower(state, n)
    /\ \A i \in 1..Len(can_edges(state)) :
         \A n \in edge_cards(can_edges(state)[i]) :
           state.cards[n].zone /= Zone_DISCARD

\* attacker and defender were both lethally damaged and both are banished
C8_Witness ==
  /\ last.action_type = Action_CHALLENGE
  /\ state.cards[last.src].zone = Zone_DISCARD
  /\ state.cards[last.dst].zone = Zone_DISCARD
  /\ state.cards[last.src].damage >= get_willpower(state, last.src)
  /\ state.cards[last.dst].damage >= get_willpower(state, last.dst)

\* a key is at or below another
IsPrefix(k, k2) == Len(k) <= Len(k2) /\ SubSeq(k2, 1, Len(k)) = k

\* C6: a stored state with game_over = 1 has winner p1 or p2, and no
\* session operation (apply_action with any id, goto, reset) changes it or
\* leaves at or below its key a state with another winner or game_over = 0.
C6_TerminalImmutable ==
  [][\A k \in DOMAIN store :
       store[k].game_over = 1 =>
         /\ store[k].winner \in Players
         /\ \A k2 \in DOMAIN store' :
              IsPrefix(k, k2) =>
                /\ store'[k2].winner = store[k].winner
                /\ store'[k2].game_over = 1]_vars

\* apply_action was called on a terminal state reached by an action
C6_Witness ==
  /\ current_key /= root_key
  /\ store[current_key].game_over = 1
  /\ store[current_key].winner = "p1"
  /\ last.action_type = "not_found"
  /\ Cardinality(DOMAIN store) > 1

\* the index base36 digits stand for
RECURSIVE from_base36(_)
from_base36(id) ==
  IF id = <<>> THEN 0
  ELSE 36 * from_base36(SubSeq(id, 1, Len(id) - 1))
         + (CHOOSE d \in 0..35 : BASE36_CHARS[d + 1] = id[Len(id)])

SameKey(e, f) == e.action_type = f.action_type /\ e.src = f.src /\ e.dst = f.dst

\* the place of an action edge in the emission order of the mechanics
emission_index(emitted, e) ==
  CHOOSE k \in 1..Len(emitted) :
    /\ SameKey(emitted[k], e)
    /\ emitted[k].description = e.description

\* C10: the N action edges carry the ids base36(0) .. base36(N-1), each once,
\* in ascending order of (action_type, src, dst), ties in emission order.
C10_ActionIdsSorted ==
  LET can == can_edges(state)
      N == Len(can)
      emitted == enumerate_edges(state)
      place == [i \in 1..N |-> emission_index(emitted, can[i])]
  IN  state.game_over = 0 =>
        /\ N = Len(emitted)
        /\ \A i \in 1..N : from_base36(can[i].action_id) = i - 1
        /\ \A i \in 1..N : Len(can[i].action_id) = 1
                             => can[i].action_id[1] = BASE36_CHARS[i]
        /\ \A i, j \in 1..N : i < j =>
             /\ can[i].action_id /= can[j].action_id
             /\ ~KeyLess(can[j], can[i])
             /\ SameKey(can[i], can[j]) => place[i] < place[j]
        /\ \A k \in 1..N : \E i \in 1..N : place[i] = k
        \* the numeral of a two-digit index has its high digit first
        /\ \A i \in 1..N :
             to_base36(36 * i + (i - 1)) = <<BASE36_CHARS[i + 1], BASE36_CHARS[i]>>

\* a challenge is emitted last and sorted first, and a Bodyguard card in
\* hand gives two play edges with the same key
C10_Witness ==
  /\ Acted
  /\ Len(can_edges(state)) >= 4
  /\ can_edges(state)[1].action_type = Action_CHALLENGE
  /\ \E i \in 1..(Len(can_edges(state)) - 1) :
       /\ SameKey(can_edges(state)[i], can_edges(state)[i + 1])
       /\ can_edges(state)[i].description = <<"play", can_edges(state)[i].src>>
       /\ can_edges(state)[i + 1].description
            = <<"play", can_edges(state)[i].src, "exerted">>

\* the last step applied an action edge through the session
Applied(edge) == edge.action_type \notin {"none", "not_found"} /\ edge.action_id /= <<>>

wins_of(refs, path, winner) ==
  IF winner = "p1" THEN get_outcomes(refs, path).p1_wins
  ELSE get_outcomes(refs, path).p2_wins

\* the count recorded at a path for the winner under an action id
count_of(refs, path, action_id, winner) ==
  LET o == get_outcomes(refs, path).outcomes
  IN  IF action_id \notin DOMAIN o THEN 0
      ELSE IF winner = "p1" THEN o[action_id].p1_wins ELSE o[action_id].p2_wins

\* C11: when an action produces a terminal state at seed/a1/.../ak, the
\* outcome (winner, p1_lore, p2_lore) is recorded at that path; every
\* ancestor seed/a1/.../aj, 0 <= j < k, gets the winner's count under the
\* whole action id a(j+1) raised by exactly 1 and the suffix a(j+1)...ak
\* appended to the winner's list; no record above the seed directory changes.
C11_BackpropagatedByActionId ==
  [][(Applied(last') /\ state'.game_over = 1) =>
       LET K == current_key'
           seed == find_seed_path(K)
           w == state'.winner
       IN  /\ K \in DOMAIN outcomes'
           /\ outcomes'[K] = outcome_data(state')
           /\ seed /= NoSeedPath =>
                \A j \in Len(seed)..(Len(K) - 1) :
                  LET anc == SubSeq(K, 1, j)
                      a == K[j + 1]
                      suffix == join(SubSeq(K, j + 1, Len(K)))
                  IN  /\ count_of(outcome_refs', anc, a, w)
                           = count_of(outcome_refs, anc, a, w) + 1
                      /\ wins_of(outcome_refs', anc, w)
                           = Append(wins_of(outcome_refs, anc, w), suffix)
           /\ \A p \in DOMAIN outcome_refs' :
                (seed = NoSeedPath \/ ~IsPrefix(seed, p)) =>
                  /\ p \in DOMAIN outcome_refs
                  /\ outcome_refs'[p] = outcome_refs[p]]_vars

\* C12: GameSession.apply_action with an id that no action edge of the
\* current state carries returns False and leaves the current key, every
\* stored state and every outcome record as they were.
C12_UnknownIdChangesNothing ==
  [][/\ \A id \in SessionIds :
          ~has_action(get_state, id) => ~GameSession_apply_action(session, id).ok
     /\ last'.action_type = "not_found" =>
          /\ ~has_action(get_state, last'.action_id)
          /\ UNCHANGED <<store, current_key, outcomes, outcome_refs, state>>]_vars

\* an unknown id was passed below the root, with outcomes on record
C12_Witness ==
  /\ last.action_type = "not_found"
  /\ current_key /= root_key
  /\ store[current_key].game_over = 0
  /\ outcomes /= <<>>

\* C13: a successful apply_action from c stores the result under c/id and
\* makes c/id current, the state under c and under every other key stays as
\* it was; reset() and goto(c) only move the current key, to the root key
\* and to c, and the state read there is the one stored there first.
C13_ApplyStoresOneKey ==
  [][/\ \A k \in DOMAIN store : k \in DOMAIN store' /\ store'[k] = store[k]
     /\ Applied(last') =>
          /\ current_key' = Append(current_key, last'.action_id)
          /\ DOMAIN store' = DOMAIN store \cup {current_key'}
          /\ store'[current_key']
               = execute_action(store[current_key], last'.action_type,
                                last'.src, last'.dst, NoMetadata)
          /\ state' = store'[current_key']
     /\ last' = NoAction =>
          /\ store' = store
          /\ current_key' \in DOMAIN store
          /\ state' = store[current_key']]_vars

\* back at the root after two actions were applied
C13_Witness ==
  /\ last = NoAction
  /\ current_key = root_key
  /\ Cardinality(DOMAIN store) >= 3
  /\ \E k \in DOMAIN store : Len(k) = Len(root_key) + 2

\* what FileStore.load_state(path) returns: a copy of the cache entry, else
\* the state read from the files
file_load(path) ==
  IF path \in DOMAIN cache THEN cached(cache, objects, path)
  ELSE FileStore_load_state(files.states, path)

FileLoads == [p \in DOMAIN cache \cup DOMAIN files.states |-> file_load(p)]

\* C14: a stored state and a state held by a caller share no mutable
\* structure, in MemoryStore and in FileStore with its cache: mutating a
\* state in place, one that was saved or one that was loaded, changes for no
\* path what load_state returns.
C14_NoAliasing ==
  [][last'.action_type = "mutate" => (store' = store /\ FileLoads' = FileLoads)]_vars

C16_ReplayMatchesExploration ==
  [][last'.action_type = "apply_action_at_path" =>
       LET P == last'.description[2]
       IN  /\ \A k \in DOMAIN files.states :
                /\ k \in DOMAIN files'.states
                /\ files'.states[k] = files.states[k]
           /\ P \in DOMAIN store =>
                \A j \in Len(root_key)..Len(P) :
                  LET k == SubSeq(P, 1, j)
                  IN  /\ k \in DOMAIN files'.states
                      /\ FileStore_load_state(files'.states, k) = store[k]]_vars

\* one call created the state at P and its missing parent
C16_Witness ==
  /\ last.action_type = "apply_action_at_path"
  /\ last.description[3] = FALSE
  /\ last.description[4] = 2
  /\ Len(last.description[2]) = Len(root_key) + 2
  /\ last.description[2] \in DOMAIN store

\* the phase of the step the current_step edge points at
current_phase(S) == edges_by_label(S, Edge_CURRENT_STEP)[1].dst[3]

\* C17: executing the pass action for the player P whose main step it is,
\* the game not over, moves the current_turn edge to the opponent P',
\* raises game.turn by exactly 1 and leaves current_step at main(P'); the
\* current step of a state between two actions is never end, ready, set or
\* draw.
C17_PassHandsOver ==
  [][(last'.action_type = Action_PASS /\ HasContext(state) /\ state.game_over = 0) =>
       LET P == get_game_context(state).player
       IN  /\ Len(edges_by_label(state', Edge_CURRENT_TURN)) = 1
           /\ edges_by_label(state', Edge_CURRENT_TURN)[1].dst = PlayerNode(other(P))
           /\ state'.turn = state.turn + 1
           /\ Len(edges_by_label(state', Edge_CURRENT_STEP)) = 1
           /\ edges_by_label(state', Edge_CURRENT_STEP)[1].dst
                = get_player_step(other(P), "main")
           /\ current_phase(state') = "main"]_vars

hand_of(S, player) ==
  {n \in DOMAIN S.cards : Owner(n) = player /\ S.cards[n].zone = Zone_HAND}

\* C18: the draw step of player P draws nothing and leaves the deck as it
\* is when P is the starting player and the turn is 1; otherwise it ends the
\* game with game_over = 1 and winner = opponent(P) when P's deck is empty,
\* and else moves exactly the front card of P's deck into P's hand.
C18_DrawStep ==
  [][last'.action_type = "draw_step" =>
       LET P == last'.src[1]
           deck == deck_of(state, P)
       IN  IF P = "p1" /\ state.turn = 1
           THEN state' = state
           ELSE IF deck = <<>>
           THEN /\ state'.game_over = 1
                /\ state'.winner = other(P)
                /\ state' = [state EXCEPT !.game_over = 1, !.winner = other(P)]
           ELSE /\ deck_of(state', P) = Tail(deck)
                /\ deck_of(state', other(P)) = deck_of(state, other(P))
                /\ <<P, deck[1][1], deck[1][2]>> \notin DOMAIN state.cards
                /\ hand_of(state', P)
                     = hand_of(state, P) \cup {<<P, deck[1][1], deck[1][2]>>}
                /\ \A n \in DOMAIN state.cards : state'.cards[n] = state.cards[n]
                /\ DOMAIN state'.cards
                     = DOMAIN state.cards \cup {<<P, deck[1][1], deck[1][2]>>}
                /\ state'.game_over = state.game_over
                /\ state'.winner = state.winner]_vars

\* the second player drew its last card and then found its deck empty
C18_Witness ==
  /\ last = StepOp("draw_step", "p2")
  /\ state.game_over = 1
  /\ state.winner = "p1"
  /\ deck_out
  /\ hand_of(state, "p2") /= {}

\* C19: after a pass has handed the turn to P', every card in the play zone
\* of P' has exerted = 0, ink_drops(P') = 1 and ink_available(P') =
\* ink_total(P') with ink_total unchanged, and the exerted flags and ink
\* attributes of the other player are as before.
C19_PassReadiesAndRefills ==
  [][(last'.action_type = Action_PASS /\ HasContext(state) /\ state.game_over = 0) =>
       LET P == get_game_context(state).player
           Q == other(P)
       IN  /\ \A n \in in_play(state') : Owner(n) = Q => state'.cards[n].exerted = 0
           /\ state'.ink_drops[Q] = 1
           /\ state'.ink_available[Q] = state'.ink_total[Q]
           /\ state'.ink_total[Q] = state.ink_total[Q]
           /\ \A n \in DOMAIN state.cards :
                Owner(n) = P => state'.cards[n].exerted = state.cards[n].exerted
           /\ state'.ink_drops[P] = state.ink_drops[P]
           /\ state'.ink_available[P] = state.ink_available[P]
           /\ state'.ink_total[P] = state.ink_total[P]]_vars

\* the exerted characters with Bodyguard in the opponent's play zone
exerted_bodyguards(S) ==
  {n \in in_play(S) :
     /\ Owner(n) = get_game_context(S).opponent
     /\ S.cards[n].exerted = 1
     /\ get_card_data(S, n).type = CardType_CHARACTER
     /\ card_data_has_keyword(get_card_data(S, n), "Bodyguard")}

challenge_edges(S) ==
  {i \in 1..Len(can_edges(S)) : can_edges(S)[i].action_type = Action_CHALLENGE}

\* C20: while an exerted opposing character has Bodyguard, every
\* can_challenge edge targets a character with Bodyguard, and every exerted
\* Bodyguard character is the target of one; a ready Bodyguard character
\* restricts nothing.
C20_BodyguardRestrictsChallenges ==
  (HasContext(state) /\ exerted_bodyguards(state) /= {}) =>
    /\ \A i \in challenge_edges(state) :
         can_edges(state)[i].dst \in exerted_bodyguards(state)
    /\ challenge_edges(state) /= {} =>
         \A g \in exerted_bodyguards(state) :
           \E i \in challenge_edges(state) : can_edges(state)[i].dst = g

\* an action edge of the type from src (to dst) is offered
offered(S, action_type, src) ==
  \E i \in 1..Len(can_edges(S)) :
    can_edges(S)[i].action_type = action_type /\ can_edges(S)[i].src = src

offered_to(S, action_type, src, dst) ==
  \E i \in 1..Len(can_edges(S)) :
    /\ can_edges(S)[i].action_type = action_type
    /\ can_edges(S)[i].src = src
    /\ can_edges(S)[i].dst = dst

printed(S, keyword) ==
  {n \in in_play(S) : card_data_has_keyword(get_card_data(S, n), keyword)}

\* C21: a character with the printed keyword Reckless that is in play has
\* an incoming cant_quest edge from an ability node and is never offered a
\* can_quest action; its can_challenge actions against the exerted
\* characters of the opponent without Evasive are still offered when it is
\* ready and dry.
C21_RecklessNeverQuests ==
  \A n \in printed(state, "Reckless") :
    /\ \E i \in 1..Len(state.edges) :
         /\ state.edges[i].dst = n
         /\ state.edges[i].label = Edge_CANT_QUEST
         /\ state.edges[i].src \in state.abilities
    /\ ~offered(state, Action_QUEST, n)
    /\ (/\ state.game_over = 0
        /\ HasContext(state)
        /\ Owner(n) = get_game_context(state).player
        /\ state.cards[n].exerted = 0
        /\ state.cards[n].entered_play < state.turn) =>
         \A d \in in_play(state) :
           (/\ Owner(d) = other(Owner(n))
            /\ state.cards[d].exerted = 1
            /\ ~has_keyword(state, d, Keyword_EVASIVE)) =>
             offered_to(state, Action_CHALLENGE, n, d)

\* the action edges of a state that play a card in its 'exerted' variant
\* or in its normal variant
play_edges(S, card_node, exerted) ==
  SelectSeq(can_edges(S),
            LAMBDA e : /\ e.action_type = Action_PLAY
                       /\ e.src = card_node
                       /\ e.description = IF exerted
                                          THEN <<"play", card_node, "exerted">>
                                          ELSE <<"play", card_node>>)

\* C22: applying by its action_id the 'play exerted' variant of a Bodyguard
\* card in hand puts the card into play with exerted = 1, and applying the
\* normal variant puts it into play with exerted = 0; the two variants
\* carry distinct action_ids and lead to distinct child states.
C22_PlayExertedVariant ==
  [][(/\ last'.action_type = Action_PLAY
      /\ card_data_has_keyword(get_card_data(state, last'.src), "Bodyguard")) =>
       LET c == last'.src
           normal == play_edges(state, c, FALSE)
           exerted == play_edges(state, c, TRUE)
       IN  /\ state'.cards[c].zone = Zone_PLAY
           /\ state'.cards[c].exerted
                = (IF last'.description = <<"play", c, "exerted">> THEN 1 ELSE 0)
           /\ Len(normal) = 1
           /\ Len(exerted) = 1
           /\ normal[1].action_id /= exerted[1].action_id
           /\ apply_action(state, normal[1].action_id)
                /= apply_action(state, exerted[1].action_id)]_vars

is_character(S, n) == get_card_data(S, n).type = CardType_CHARACTER

\* C23: compute_can_challenge emits can_challenge(a -> d) only when a is a
\* character in the active player's play zone with exerted = 0 and
\* (entered_play < game.turn or a has Rush), and d is a character in the
\* opponent's play zone with exerted = 1; a ready or an own character is
\* never a target, Rush does not lift the ready requirement, and an
\* attacker qualifies whatever its strength: against a defender without
\* Evasive every such pair is emitted.
C23_ChallengeEnumeration ==
  HasContext(state) =>
    LET ctx == get_game_context(state)
        emitted == compute_can_challenge(state)
        attacker(a) == /\ Owner(a) = ctx.player
                       /\ is_character(state, a)
                       /\ state.cards[a].exerted = 0
                       /\ \/ state.cards[a].entered_play < state.turn
                          \/ has_keyword(state, a, Keyword_RUSH)
        target(d) == /\ Owner(d) = ctx.opponent
                     /\ is_character(state, d)
                     /\ state.cards[d].exerted = 1
    IN  /\ \A i \in 1..Len(emitted) :
             /\ emitted[i].action_type = Action_CHALLENGE
             /\ emitted[i].src \in in_play(state)
             /\ emitted[i].dst \in in_play(state)
             /\ attacker(emitted[i].src)
             /\ target(emitted[i].dst)
        /\ \A a \in in_play(state), d \in in_play(state) :
             (attacker(a) /\ target(d) /\ ~has_keyword(state, d, Keyword_EVASIVE)) =>
               \E i \in 1..Len(emitted) : emitted[i].src = a /\ emitted[i].dst = d

\* the ready, dry Cri-Kee (strength 0) is the one attacker: p1's exerted
\* Stitch is no target, the exerted character of p2 is
C23_Witness ==
  /\ DOMAIN state.cards = {CardNode("p1", "cri_kee_good_luck_charm"),
                           CardNode("p1", "stitch_rock_star"),
                           CardNode("p2", "stitch_new_dog"),
                           CardNode("p2", "rafiki_mysterious_sage")}
  /\ get_strength(state, CardNode("p1", "cri_kee_good_luck_charm")) = 0
  /\ state.cards[CardNode("p1", "stitch_rock_star")].exerted = 1
  /\ Len(compute_can_challenge(state)) = 1
  /\ compute_can_challenge(state)[1].src = CardNode("p1", "cri_kee_good_luck_charm")
  /\ compute_can_challenge(state)[1].dst = CardNode("p2", "stitch_new_dog")

\* the card has the keyword: it is printed on it or a keyword edge grants it
has(S, n, printed_keyword) ==
  \/ card_data_has_keyword(get_card_data(S, n), printed_keyword)
  \/ has_keyword(S, n, keyword_label(printed_keyword))

\* C24: Evasive gate: for an exerted defender d that has Evasive,
\* can_challenge(a -> d) is emitted for an otherwise eligible attacker a if
\* and only if a has Evasive or Alert; Evasive or Alert on the attacker
\* never removes a challenge against a defender without Evasive.
C24_EvasiveGate ==
  HasContext(state) =>
    LET ctx == get_game_context(state)
        emitted == compute_can_challenge(state)
        challenges(a, d) ==
          \E i \in 1..Len(emitted) : emitted[i].src = a /\ emitted[i].dst = d
        eligible(a) == /\ Owner(a) = ctx.player
                       /\ is_character(state, a)
                       /\ state.cards[a].exerted = 0
                       /\ \/ state.cards[a].entered_play < state.turn
                          \/ has(state, a, "Rush")
        target(d) == /\ Owner(d) = ctx.opponent
                     /\ is_character(state, d)
                     /\ state.cards[d].exerted = 1
    IN  \A a \in in_play(state), d \in in_play(state) :
          (eligible(a) /\ target(d)) =>
            IF has(state, d, "Evasive")
            THEN challenges(a, d) <=> (has(state, a, "Evasive") \/ has(state, a, "Alert"))
            ELSE challenges(a, d)

\* C25: executing can_challenge(a -> d) sets a.exerted = 1 and adds
\* strength(a) to d.damage and strength(d) to a.damage, both strengths as
\* they were before the challenge (strength 0 allowed); d's exerted flag
\* and both players' lore and ink are unchanged.
C25_ChallengeExecution ==
  [][last'.action_type = Action_CHALLENGE =>
       LET a == last'.src
           d == last'.dst
       IN  /\ state'.cards[a].exerted = 1
           /\ state'.cards[d].damage = state.cards[d].damage + get_strength(state, a)
           /\ state'.cards[a].damage = state.cards[a].damage + get_strength(state, d)
           /\ state'.cards[d].exerted = state.cards[d].exerted
           /\ state'.lore = state.lore
           /\ state'.ink_drops = state.ink_drops
           /\ state'.ink_total = state.ink_total
           /\ state'.ink_available = state.ink_available]_vars

\* two damaged characters with positive strength have challenged
C25_Witness ==
  /\ last.action_type = Action_CHALLENGE
  /\ get_strength(state, last.src) > 0
  /\ get_strength(state, last.dst) > 0
  /\ state.cards[last.src].damage > get_strength(state, last.dst)
  /\ state.cards[last.dst].damage > get_strength(state, last.src)
  /\ state.cards[last.src].exerted = 1

\* C26: compute_can_quest emits can_quest(c -> player) for exactly the
\* characters c in the active player's play zone that are not exerted, have
\* entered_play < game.turn and have no incoming cant_quest edge, one edge
\* each; a lore value of 0 does not disqualify, and cards in hand or
\* belonging to the opponent are never emitted.
C26_QuestEnumeration ==
  HasContext(state) =>
    LET ctx == get_game_context(state)
        emitted == compute_can_quest(state)
        qualifies(c) ==
          /\ Owner(c) = ctx.player
          /\ state.cards[c].zone = Zone_PLAY
          /\ is_character(state, c)
          /\ state.cards[c].exerted = 0
          /\ state.cards[c].entered_play < state.turn
          /\ ~\E i \in 1..Len(state.edges) :
                state.edges[i].dst = c /\ state.edges[i].label = Edge_CANT_QUEST
    IN  /\ \A i \in 1..Len(emitted) :
             /\ emitted[i].action_type = Action_QUEST
             /\ emitted[i].dst = PlayerNode(ctx.player)
             /\ emitted[i].src \in DOMAIN state.cards
             /\ qualifies(emitted[i].src)
        /\ \A c \in DOMAIN state.cards :
             qualifies(c) =>
               Cardinality({i \in 1..Len(emitted) : emitted[i].src = c}) = 1

\* the one quest is that of the 0-lore Gaston: the exerted character of p1,
\* the ready character of p2 and the card in hand are not emitted
C26_Witness ==
  /\ Len(compute_can_quest(state)) = 1
  /\ get_card_data(state, compute_can_quest(state)[1].src).lore = 0
  /\ \E n \in DOMAIN state.cards :
       Owner(n) = "p2" /\ state.cards[n].zone = Zone_PLAY /\ state.cards[n].exerted = 0
  /\ \E n \in DOMAIN state.cards :
       Owner(n) = "p1" /\ state.cards[n].zone = Zone_PLAY /\ state.cards[n].exerted = 1
  /\ \E n \in DOMAIN state.cards : state.cards[n].zone = Zone_HAND

\* C27: executing can_quest on character c sets c.exerted = 1 and adds c's
\* CardDB lore to the active player's lore; if the new lore is at least 20
\* then game_over = 1 and winner = that player and the following
\* compute_all leaves no action edges, otherwise game_over stays 0; the
\* opponent's lore is unchanged.
C27_QuestExecution ==
  [][last'.action_type = Action_QUEST =>
       LET c == last'.src
           P == get_game_context(state).player
           new_lore == state.lore[P] + get_card_db[state.cards[c].label].lore
       IN  /\ state'.cards[c].exerted = 1
           /\ state'.lore[P] = new_lore
           /\ state'.lore[other(P)] = state.lore[other(P)]
           /\ IF new_lore >= 20
              THEN /\ state'.game_over = 1
                   /\ state'.winner = P
                   /\ can_edges(state') = <<>>
              ELSE /\ state.game_over = 0
                   /\ state'.game_over = 0
                   /\ state'.winner = state.winner]_vars

\* a quest for 3 lore at 17 lore has ended the game
C27_Witness ==
  /\ last.action_type = Action_QUEST
  /\ get_card_data(state, last.src).lore = 3
  /\ state.cards[last.src].exerted = 1
  /\ state.lore = [p1 |-> 20, p2 |-> 5]
  /\ state.game_over = 1
  /\ state.winner = "p1"
  /\ can_edges(state) = <<>>

\* the inkable cards in a player's hand
inkable_hand(S, p) ==
  { c \in DOMAIN S.cards : /\ Owner(c) = p
                           /\ S.cards[c].zone = Zone_HAND
                           /\ get_card_data(S, c).inkwell }

\* the cards for which a can_ink action is enumerated
ink_offers(S) ==
  { compute_can_ink(S)[i].src : i \in 1..Len(compute_can_ink(S)) }
    \cup { c \in DOMAIN S.cards : offered(S, Action_INK, c) }

\* C28: within one turn a player executes at most one ink action: an ink
\* is executed only with the one ink drop of the turn and uses it up; from
\* then on no can_ink action is enumerated for that player until their
\* next set step; after that set step can_ink is offered again for the
\* inkable cards of their hand.
C28_InkOncePerTurn ==
  [][LET P == get_game_context(state).player
         is_set_step == last'.action_type = "set_step" /\ last'.src = PlayerNode(P)
     IN  /\ last'.action_type = Action_INK =>
              /\ state.ink_drops[P] = 1
              /\ state'.ink_drops[P] = 0
              /\ ink_offers(state') = {}
         /\ (state.ink_drops[P] = 0 /\ ~is_set_step) =>
              /\ last'.action_type /= Action_INK
              /\ state'.ink_drops[P] = 0
              /\ ink_offers(state') = {}
         /\ is_set_step =>
              /\ state'.ink_drops[P] = 1
              /\ { compute_can_ink(state')[i].src :
                     i \in 1..Len(compute_can_ink(state')) } = inkable_hand(state, P)
         /\ (last'.action_type = "compute_all" /\ state.ink_drops[P] = 1
               /\ state.game_over = 0) =>
              { c \in DOMAIN state.cards : offered(state', Action_INK, c) }
                = inkable_hand(state, P)]_vars

\* a second card has been inked: the first ink used the drop, a set step
\* gave it back, and the second ink has used it again
C28_Witness ==
  /\ last.action_type = Action_INK
  /\ state.ink_total["p1"] = 2
  /\ Len(cards_in_zone(state, "p1", Zone_INK)) = 2
  /\ state.ink_drops["p1"] = 0
  /\ inkable_hand(state, "p1") = {}
  /\ ink_offers(state) = {}

\* C29: compute_can_ink emits can_ink(c -> player) for exactly the cards c
\* that are in the active player's hand and whose CardDB entry has
\* inkwell = true when ink_drops >= 1, one edge per such card, and emits
\* nothing when ink_drops = 0; cards of the opponent are never emitted.
C29_InkEnumeration ==
  HasContext(state) =>
    LET ctx == get_game_context(state)
        emitted == compute_can_ink(state)
        qualifies(c) ==
          /\ Owner(c) = ctx.player
          /\ state.cards[c].zone = Zone_HAND
          /\ get_card_db[state.cards[c].label].inkwell
    IN  IF state.ink_drops[ctx.player] >= 1
        THEN /\ \A i \in 1..Len(emitted) :
                  /\ emitted[i].action_type = Action_INK
                  /\ emitted[i].dst = PlayerNode(ctx.player)
                  /\ emitted[i].src \in DOMAIN state.cards
                  /\ Owner(emitted[i].src) /= ctx.opponent
                  /\ qualifies(emitted[i].src)
             /\ \A c \in DOMAIN state.cards :
                  qualifies(c) =>
                    Cardinality({i \in 1..Len(emitted) : emitted[i].src = c}) = 1
        ELSE /\ state.ink_drops[ctx.player] = 0
             /\ emitted = <<>>

\* with an ink drop, two inkable cards and one other card in hand, and an
\* inkable card in the opponent's hand, exactly the two are emitted
C29_Witness ==
  /\ state.ink_drops["p1"] = 1
  /\ Len(cards_in_zone(state, "p1", Zone_HAND)) = 3
  /\ Len(compute_can_ink(state)) = 2
  /\ \E c \in DOMAIN state.cards :
       /\ Owner(c) = "p1" /\ state.cards[c].zone = Zone_HAND
       /\ ~get_card_data(state, c).inkwell
  /\ \E c \in DOMAIN state.cards :
       /\ Owner(c) = "p2" /\ state.cards[c].zone = Zone_HAND
       /\ get_card_data(state, c).inkwell

\* without an ink drop nothing is emitted although inkable cards are in hand
C29_WitnessNoDrop ==
  /\ state.ink_drops["p1"] = 0
  /\ \E c \in DOMAIN state.cards :
       /\ Owner(c) = "p1" /\ state.cards[c].zone = Zone_HAND
       /\ get_card_data(state, c).inkwell
  /\ compute_can_ink(state) = <<>>

\* C30: executing can_ink on card c moves c from hand to ink and changes
\* the active player's counters by exactly ink_drops - 1, ink_total + 1 and
\* ink_available + 1, leaving every other card, both lores and the
\* opponent's ink attributes unchanged.
C30_InkExecution ==
  [][last'.action_type = Action_INK =>
       LET c == last'.src
           P == get_game_context(state).player
           O == get_game_context(state).opponent
       IN  /\ state.cards[c].zone = Zone_HAND
           /\ state'.cards[c].zone = Zone_INK
           /\ state'.ink_drops[P] = state.ink_drops[P] - 1
           /\ state'.ink_total[P] = state.ink_total[P] + 1
           /\ state'.ink_available[P] = state.ink_available[P] + 1
           /\ DOMAIN state'.cards = DOMAIN state.cards
           /\ \A n \in DOMAIN state.cards \ {c} : state'.cards[n] = state.cards[n]
           /\ state'.lore = state.lore
           /\ state'.ink_drops[O] = state.ink_drops[O]
           /\ state'.ink_total[O] = state.ink_total[O]
           /\ state'.ink_available[O] = state.ink_available[O]]_vars

\* a card has been inked after ink was spent on playing another card: the
\* inkwell holds 4 of which 1 is available, and a character is in play
C30_Witness ==
  /\ last.action_type = Action_INK
  /\ state.cards[last.src].zone = Zone_INK
  /\ state.ink_drops["p1"] = 0
  /\ state.ink_total["p1"] = 4
  /\ state.ink_available["p1"] < 4
  /\ state.ink_total["p2"] = 0
  /\ Len(cards_in_zone(state, "p1", Zone_PLAY)) = 2

\* C31: compute_can_play emits can_play(c -> player) for exactly the cards
\* c in the active player's hand whose cost is at most ink_available; a
\* card whose CardDB entry has Bodyguard gets exactly two edges, the normal
\* one and one with exerted = true, every other playable card exactly one.
C31_PlayEnumeration ==
  HasContext(state) =>
    LET ctx == get_game_context(state)
        emitted == compute_can_play(state)
        qualifies(c) ==
          /\ Owner(c) = ctx.player
          /\ state.cards[c].zone = Zone_HAND
          /\ get_card_db[state.cards[c].label].cost <= state.ink_available[ctx.player]
        edges_of(c, exerted) ==
          { i \in 1..Len(emitted) :
              emitted[i].src = c /\ emitted[i].metadata.exerted = exerted }
    IN  /\ \A i \in 1..Len(emitted) :
             /\ emitted[i].action_type = Action_PLAY
             /\ emitted[i].dst = PlayerNode(ctx.player)
             /\ emitted[i].src \in DOMAIN state.cards
             /\ qualifies(emitted[i].src)
        /\ \A c \in DOMAIN state.cards :
             qualifies(c) =>
               /\ Cardinality(edges_of(c, FALSE)) = 1
               /\ Cardinality(edges_of(c, TRUE))
                    = (IF "Bodyguard" \in
                            { get_card_db[state.cards[c].label].abilities[k] :
                                k \in 1..Len(get_card_db[state.cards[c].label].abilities) }
                       THEN 1 ELSE 0)

\* with 5 ink and an action card (cost 5), Bodyguard Simba (cost 2) and
\* Stitch - Rock Star (cost 6) in hand: one edge for the action, two for
\* Simba, none for Stitch
C31_Witness ==
  /\ state.ink_available["p1"] = 5
  /\ { state.cards[c].label :
         c \in { n \in DOMAIN state.cards :
                   Owner(n) = "p1" /\ state.cards[n].zone = Zone_HAND } }
       = {"dragon_fire", "simba_protective_cub", "stitch_rock_star"}
  /\ Len(compute_can_play(state)) = 3
  /\ Cardinality({ i \in 1..3 :
                     compute_can_play(state)[i].src = CardNode("p1", "simba_protective_cub") }) = 2

\* C32: executing can_play on card c decrements the active player's
\* ink_available by c's cost and leaves ink_total and ink_drops unchanged;
\* a card of type action goes to discard and gets no ability nodes, any
\* other card goes to play with entered_play equal to the current
\* game.turn.
C32_PlayExecution ==
  [][last'.action_type = Action_PLAY =>
       LET c == last'.src
           P == get_game_context(state).player
           card_data == get_card_db[state.cards[c].label]
       IN  /\ state.cards[c].zone = Zone_HAND
           /\ state'.ink_available[P] = state.ink_available[P] - card_data.cost
           /\ state'.ink_available[P] >= 0
           /\ state'.ink_total = state.ink_total
           /\ state'.ink_drops = state.ink_drops
           /\ IF card_data.type = CardType_ACTION
              THEN /\ state'.cards[c].zone = Zone_DISCARD
                   /\ state'.abilities = state.abilities
                   /\ ~\E i \in 1..Len(state'.edges) : state'.edges[i].dst = c
              ELSE /\ state'.cards[c].zone = Zone_PLAY
                   /\ state'.cards[c].entered_play = state.turn
                   /\ state'.turn = state.turn]_vars

\* the action card has been played for 5 of 7 ink and lies in discard
C32_Witness ==
  /\ last.action_type = Action_PLAY
  /\ state.cards[last.src].label = "dragon_fire"
  /\ state.cards[last.src].zone = Zone_DISCARD
  /\ state.ink_available["p1"] = 2
  /\ state.ink_total["p1"] = 7
  /\ state.ink_drops["p1"] = 1

\* a character has been played for 2 of 5 ink and is in play since this turn
C32_WitnessCharacter ==
  /\ last.action_type = Action_PLAY
  /\ state.cards[last.src].label = "simba_protective_cub"
  /\ state.cards[last.src].zone = Zone_PLAY
  /\ state.cards[last.src].entered_play = state.turn
  /\ state.ink_available["p1"] = 3
  /\ state.ink_total["p1"] = 5

\* the ids of a player's cards: those left in the deck and those of the
\* player's card nodes
deck_nodes(S, p) == { <<p, deck_of(S, p)[i][1], deck_of(S, p)[i][2]>> :
                        i \in 1..Len(deck_of(S, p)) }

card_nodes(S, p) == { n \in DOMAIN S.cards : Owner(n) = p }

conserved(S) ==
  \A p \in Players :
    /\ deck_nodes(S, p) \cap card_nodes(S, p) = {}
    /\ Cardinality(deck_nodes(S, p)) = Len(deck_of(S, p))
    /\ \A n \in card_nodes(S, p) :
         S.cards[n].zone \in {Zone_HAND, Zone_PLAY, Zone_INK, Zone_DISCARD}

\* C33: cards are conserved: for each player the ids remaining in the deck
\* and the ids of the player's card nodes are disjoint and together stay
\* the same set, the shuffled starting deck, from step to step; a draw
\* takes the id at the front of the deck and creates it as a hand node; no
\* card node is deleted or duplicated, and every card node has one zone.
C33_CardsConserved ==
  [][/\ conserved(state)
     /\ conserved(state')
     /\ \A p \in Players :
          /\ deck_nodes(state', p) \cup card_nodes(state', p)
               = deck_nodes(state, p) \cup card_nodes(state, p)
          /\ card_nodes(state, p) \subseteq card_nodes(state', p)
          /\ \/ deck_of(state', p) = deck_of(state, p)
             \/ /\ last'.action_type = "draw_step"
                /\ last'.src = PlayerNode(p)
                /\ deck_of(state, p) /= <<>>
                /\ deck_of(state', p) = Tail(deck_of(state, p))
                /\ LET drawn == <<p, deck_of(state, p)[1][1], deck_of(state, p)[1][2]>>
                   IN  /\ card_nodes(state', p) = card_nodes(state, p) \cup {drawn}
                       /\ state'.cards[drawn].zone = Zone_HAND]_vars

\* both decks have been drawn empty, and cards of the first player lie in
\* hand or ink, in play and in discard
C33_Witness ==
  /\ state.deck1_ids = <<>>
  /\ state.deck2_ids = <<>>
  /\ Cardinality(card_nodes(state, "p1")) = 3
  /\ Cardinality(card_nodes(state, "p2")) = 3
  /\ \E n \in card_nodes(state, "p1") : state.cards[n].zone = Zone_INK
  /\ \E n \in card_nodes(state, "p1") : state.cards[n].zone = Zone_PLAY
  /\ \E n \in card_nodes(state, "p1") : state.cards[n].zone = Zone_DISCARD

\* C34: lethal challenge end to end: when a challenge leaves the defender
\* with damage >= willpower, the state stored after the action has the
\* defender in discard with none of its ability nodes left, and the
\* attacker exerted with damage increased by the defender's strength.
C34_LethalChallenge ==
  [][(/\ last'.action_type = Action_CHALLENGE
      /\ state.cards[last'.dst].damage + get_strength(state, last'.src)
           >= get_willpower(state, last'.dst)) =>
       LET a == last'.src
           d == last'.dst
       IN  /\ state'.cards[d].zone = Zone_DISCARD
           /\ \A i \in ability_edges(state') : state'.edges[i].dst /= d
           /\ state'.cards[a].exerted = 1
           /\ state'.cards[a].damage
                = state.cards[a].damage + get_strength(state, d)]_vars

\* C35: each enumerate function (compute_can_pass, compute_can_ink,
\* compute_can_play, compute_can_quest, compute_can_challenge) returns no
\* action when game_over = 1, and compute_can_pass returns exactly one
\* can_pass action if and only if the current step is main and
\* game_over = 0.  (That they leave the graph unchanged is how they are
\* modelled: as operators over the state.)
C35_EnumerateGuards ==
  /\ state.game_over = 1 =>
       /\ compute_can_pass(state) = <<>>
       /\ compute_can_ink(state) = <<>>
       /\ compute_can_play(state) = <<>>
       /\ compute_can_quest(state) = <<>>
       /\ compute_can_challenge(state) = <<>>
  /\ (/\ Len(compute_can_pass(state)) = 1
      /\ compute_can_pass(state)[1].action_type = Action_PASS)
       <=> (/\ edges_by_label(state, Edge_CURRENT_STEP) /= <<>>
            /\ step_attr(edges_by_label(state, Edge_CURRENT_STEP)[1].dst) = "main"
            /\ state.game_over = 0)

\* C36: running compute_all twice in succession on the same state yields
\* the same action edges, with the same ids, sources, targets and
\* descriptions in the same order, as running it once.
C36_ComputeAllIdempotent ==
  \A once \in {compute_all(state)} :
    \A twice \in {compute_all(once)} :
      /\ Len(can_edges(twice)) = Len(can_edges(once))
      /\ \A i \in 1..Len(can_edges(once)) :
           /\ can_edges(twice)[i].action_id = can_edges(once)[i].action_id
           /\ can_edges(twice)[i].action_type = can_edges(once)[i].action_type
           /\ can_edges(twice)[i].src = can_edges(once)[i].src
           /\ can_edges(twice)[i].dst = can_edges(once)[i].dst
           /\ can_edges(twice)[i].description = can_edges(once)[i].description
      /\ twice = once

\* compute_all has run on a graph whose action edges were stale: after a
\* set step gave the ink drop back it has added the ink actions, and a
\* second run would change nothing
C36_Witness ==
  /\ last.action_type = "compute_all"
  /\ Len(can_edges(state)) >= 3
  /\ \E c \in DOMAIN state.cards : offered(state, Action_INK, c)
  /\ \E c \in DOMAIN state.cards : offered(state, Action_PLAY, c)
  /\ state.ink_total["p1"] = 4
  /\ compute_all(state) = state

\* C37: play_until_game_over(max_actions) applies at most max_actions
\* actions and returns the current path; it stops as soon as the game is
\* over or no action is available, and when the bound is exhausted first
\* the game it returns from is still running (game_over = 0).
C37_RolloutBounded ==
  [][last'.action_type = "play_until_game_over" =>
       LET max_actions == last'.description[2]
           before == last'.description[3]
           path == last'.description[4]
           applied == Len(path) - Len(before)
       IN  /\ path = SubSeq(current_key', Len(root_key) + 1, Len(current_key'))
           /\ SubSeq(path, 1, Len(before)) = before
           /\ 0 <= applied /\ applied <= max_actions
           \* no action was applied to a finished game
           /\ state.game_over = 1 => applied = 0
           /\ \A k \in (Len(current_key) + 1)..(Len(current_key') - 1) :
                store'[SubSeq(current_key', 1, k)].game_over = 0
           \* it stopped early only for one of the two reasons
           /\ applied < max_actions =>
                \/ state'.game_over = 1
                \/ can_edges(state') = <<>>
           \* at the bound the game may be over only through the last action
           /\ (applied = max_actions /\ state'.game_over = 1) =>
                \/ applied = 0
                \/ store'[SubSeq(current_key', 1, Len(current_key') - 1)].game_over = 0]_vars

\* a rollout with bound 3 has applied three actions to a running game and
\* returned from a game that is still running and still has actions
C37_Witness ==
  /\ last.action_type = "play_until_game_over"
  /\ last.description[2] = 3
  /\ Len(last.description[4]) - Len(last.description[3]) = 3
  /\ state.game_over = 0
  /\ can_edges(state) /= <<>>

(***************************************************************************)
(* C38: in hand-spec mode the deck built from a decklist is a permutation  *)
(* of all the copies the decklist names, and its first 7 entries are, for  *)
(* each of the 7 hand indices in order, the next unused copy of the        *)
(* index-th card name of the decklist; a hand index not below the number   *)
(* of names, or more requests for a name than it has copies, raises an     *)
(* error and no seed directory is saved.  Stated of the state a call of    *)
(* shuffle_and_draw leaves, for decklists that name each card on one line. *)
(***************************************************************************)
well_formed(seed) ==
  /\ Len(seed) = 3
  /\ Len(seed[1]) = 7 /\ Len(seed[2]) = 7 /\ Len(seed[3]) = 2
  /\ \A p \in 1..2 : \A k \in 1..7 :
       \E i \in 1..Len(BASE36_CHARS) : BASE36_CHARS[i] = seed[p][k]

hand_index(c) == (CHOOSE i \in 1..Len(BASE36_CHARS) : BASE36_CHARS[i] = c) - 1

requests(spec, i) == Cardinality({k \in 1..7 : hand_index(spec[k]) = i})

seed_fails(cards, spec) ==
  \/ \E k \in 1..7 : hand_index(spec[k]) >= Len(cards)
  \/ \E i \in 1..Len(cards) : requests(spec, i - 1) > cards[i].count

copies(cards) ==
  {<<normalize_card_name(cards[i].name), CopySuffixes[k]>> :
     i \in 1..Len(cards), k \in 1..4}
  \cap UNION {{<<normalize_card_name(cards[i].name), CopySuffixes[k]>> :
                 k \in 1..cards[i].count} : i \in 1..Len(cards)}

next_unused(cards, spec, k) ==
  <<normalize_card_name(cards[hand_index(spec[k]) + 1].name),
    CopySuffixes[1 + Cardinality({j \in 1..(k - 1) :
                                    hand_index(spec[j]) = hand_index(spec[k])})]>>

built_as_specified(deck, cards, spec) ==
  /\ Len(deck) = Cardinality(copies(cards))
  /\ {deck[i] : i \in 1..Len(deck)} = copies(cards)
  /\ \A k \in 1..7 : deck[k] = next_unused(cards, spec, k)

seed_path == Append(MatchDir, last.action_id)

C38_WitnessOutOfRange ==
  /\ last.action_type = "shuffle_and_draw"
  /\ last.description[1] = "Hand index out of range"
  /\ well_formed(last.action_id)
  /\ ~seed_fails(files.deck1_txt, last.action_id[1])
  /\ Len(files.deck2_txt) = 2
  /\ DOMAIN files.states = {MatchDir}

\* a name is asked for more often than it has copies
C38_WitnessExhausted ==
  /\ last.action_type = "shuffle_and_draw"
  /\ last.description[1] = "Not enough copies"
  /\ requests(last.action_id[1], 0) = 5
  /\ DOMAIN files.states = {MatchDir}

(***************************************************************************)
(* C39: every game is finite and ends: every sequence of enumerated        *)
(* actions reaches a state with game_over = 1.  Under SpecGame, where an   *)
(* action is applied whenever one is offered.                              *)
(***************************************************************************)
C39_GameEnds == <>(state.game_over = 1)

(***************************************************************************)
(* C40: each terminal path is counted at most once in the outcomes of      *)
(* every ancestor: whatever is applied again after goto or reset, no       *)
(* suffix is recorded twice and a win counter is the number of distinct    *)
(* suffixes that begin with its action.                                    *)
(***************************************************************************)
no_duplicates(wins) ==
  \A i \in 1..Len(wins) : \A j \in 1..Len(wins) : wins[i] = wins[j] => i = j

wins_by(wins, first_action) ==
  Cardinality({wins[i] : i \in {k \in 1..Len(wins) : <<wins[k][1]>> = first_action}})

C40_TerminalPathCountedOnce ==
  \A path \in DOMAIN outcome_refs :
    LET refs == outcome_refs[path]
    IN  /\ no_duplicates(refs.p1_wins)
        /\ no_duplicates(refs.p2_wins)
        /\ \A a \in DOMAIN refs.outcomes :
             /\ refs.outcomes[a].p1_wins = wins_by(refs.p1_wins, a)
             /\ refs.outcomes[a].p2_wins = wins_by(refs.p2_wins, a)

====
